---- MODULE Spec2Model ----
(***************************************************************************)
(* pg-faker: FK-consistent fake row generation.                            *)
(*                                                                         *)
(* The model follows src/src/pg_faker/generate.py (get_db, get_table,      *)
(* get_row, get_fk_constrained_options, get_uc_hasher),                    *)
(* src/src/pg_faker/strategies.py (list_strategy, dict_strategy, nullable) *)
(* and src/src/pg_faker/pg.py (topo_sort_tables).                          *)
(*                                                                         *)
(* A Strategy is modelled by the set of values its gen() can return; a     *)
(* call of gen() is a nondeterministic choice in that set.  A Row is a     *)
(* function from column names to values, a Python list is a sequence, a    *)
(* Python dict whose order matters is a sequence of pairs.                 *)
(***************************************************************************)
EXTENDS Integers, Sequences, FiniteSets, TLC

VARIABLES
    kwargs,                  \* get_db(...): names of the arguments the caller passes
    schema,                  \* get_db(schema, ...): sequence of TableInfo
    row_counts,              \* get_db(..., row_counts): table -> count or None
    tbl_override_strategies, \* get_db(..., tbl_override_strategies)
    data,                    \* the GenerationStore: table -> list of rows
    data_keys,               \* the keys of the dict `data`, in insertion order
    pc,                      \* position of the running call
    graph_keys,              \* topo_sort_tables: keys of `graph`, insertion order
    graph,                   \* topo_sort_tables: foreign table -> set of dependents
    indegree,                \* topo_sort_tables: table -> number of owned constraints left
    queue,                   \* topo_sort_tables: the deque
    sorted_tables,           \* topo_sort_tables: tables emitted so far
    sorted_tbls,             \* get_db: the order returned by topo_sort_tables
    idx,                     \* get_db: index in sorted_tbls of the current table
    strats,                  \* get_db: tables for which get_table was invoked
    written,                 \* get_db: tables whose store entry was assigned, in order
    min_length,              \* list_strategy argument
    max_length,              \* list_strategy argument
    max_iter,                \* list_strategy argument
    length,                  \* list_strategy: target length drawn by randint
    iters,                   \* list_strategy: iterations of the for loop started
    items,                   \* list_strategy: accepted items
    seen,                    \* list_strategy: per unique constraint, recorded keys
    row,                     \* outcome of the last invocation of the row strategy
                             \* (list_strategy: the item of the last iteration)
    max_rows,                \* get_fk_constrained_options argument
    fk_constrained_cols,     \* get_fk_constrained_options: the column set returned
    fk_strat,                \* get_fk_constrained_options: the candidates of the
                             \* one_of strategy returned, <<>> for None
    arg_col_info,            \* col_info_to_strategy: the argument col_info
    ret_strat                \* col_info_to_strategy: the Strategy returned

vars == <<arg_col_info, ret_strat, max_rows, fk_constrained_cols, fk_strat, kwargs, schema, row_counts, tbl_override_strategies, data, data_keys, pc,
          graph_keys, graph,
          indegree, queue, sorted_tables, sorted_tbls, idx, strats, written,
          min_length, max_length, max_iter, length, iters, items, seen, row>>

(***************************************************************************)
(* Bounds of the model and constants of the program.                       *)
(***************************************************************************)
MaxVal == 2          \* non-null values are 1..MaxVal
MaxStoreRows == 2    \* rows of a foreign table supplied by the caller
MaxFks == 2          \* FK constraints owned by one table (ordering model)
MaxRowCount == 2     \* row counts requested by the caller
MaxAttempts == 4     \* max_iter passed to list_strategy called on its own
MaxCap == 2          \* max_rows passed to get_fk_constrained_options, besides the default

Null == 0            \* Python None
None == 0 - 1        \* an absent optional argument (row_count is None)
MAX_ROWS == 1000
MIN_ROWS == 10
DEFAULT_MAX_ITER == 10000

Values == 1..MaxVal
AnyValue == Values \cup {Null}

(***************************************************************************)
(* Generic helpers.                                                        *)
(***************************************************************************)
Range(s) == {s[i] : i \in DOMAIN s}

Min(x, y) == IF x <= y THEN x ELSE y

\* All orders in which a Python set can be iterated.
Perms(S) == {p \in [1..Cardinality(S) -> S] : \A x \in S : \E i \in DOMAIN p : p[i] = x}

EmptyRow == <<>>

\* {**row1, **row2}, also dict.update: the right operand wins.
Merge(row1, row2) ==
    [c \in (DOMAIN row1) \cup (DOMAIN row2) |->
        IF c \in DOMAIN row2 THEN row2[c] ELSE row1[c]]

\* one of the orders in which a set can be iterated
RECURSIVE some_order(_)
some_order(S) ==
    IF S = {} THEN <<>>
    ELSE LET x == CHOOSE x \in S : TRUE IN <<x>> \o some_order(S \ {x})

\* row.items() of a dict whose keys were inserted in the given order
items_of(r, order) == [i \in DOMAIN order |-> <<order[i], r[order[i]]>>]

\* str.startswith
startswith(s, prefix) == Len(s) >= Len(prefix) /\ SubSeq(s, 1, Len(prefix)) = prefix

(***************************************************************************)
(* strategies.py                                                           *)
(***************************************************************************)
fixed_strategy(value) == {value}

nullable(strategy) == strategy \cup {Null}

one_of(enum_values) == Range(enum_values)

\* result = {key: value.gen()}; for other in others: result.update(other.gen())
RECURSIVE dict_update(_, _, _)
dict_update(result, others, i) ==
    IF i > Len(others) THEN result
    ELSE dict_update(Merge(result, others[i]), others, i + 1)

dict_strategy(fields, others) == dict_update(fields, others, 1)

(***************************************************************************)
(* generate.py: Type Mapper (the part the row engine needs: a non-null     *)
(* base strategy, wrapped in nullable(...) for a nullable column).         *)
(***************************************************************************)
UnsupportedPgtype == "ValueError: Unsupported pgtype"

\* the type tags the branches of lines 48-81 test by name
scalar_pgtype_tags ==
    {"uuid", "date", "timestamptz", "timestamp", "time", "timetz", "varchar", "text",
     "bpchar", "numeric", "money", "bool", "int2", "int4", "int8", "json", "jsonb"}

\* the type takes one of the branches of lines 48-81; line 69 takes every type
\* whose name starts with "float"
is_scalar_pgtype(pgtype) ==
    pgtype \in scalar_pgtype_tags \/ startswith(pgtype, "float")

\* the type tags of the branches of lines 84-91, which stand after the enum branch
late_pgtype_tags == {"bit", "varbit", "xml"}

\* the enum branch of line 82 stands after the branches of the scalar types and
\* before those of bit, varbit and xml
enum_branch(col_info) ==
    /\ ~is_scalar_pgtype(col_info.pgtype)
    /\ col_info.enum_values # <<>>

\* lines 92-93: raise ValueError(f"Unsupported pgtype: ...")
unsupported_pgtype(col_info) ==
    /\ ~is_scalar_pgtype(col_info.pgtype)
    /\ col_info.pgtype \notin late_pgtype_tags
    /\ col_info.enum_values = <<>>

\* the values of the strategy; every base strategy yields non-null values, here
\* 1..MaxVal whatever the type. For an unsupported type line 93 raises before
\* the nullable(...) of line 96 is reached: no value.
col_info_to_strategy(col_info) ==
    IF unsupported_pgtype(col_info) THEN {}
    ELSE LET strat == IF enum_branch(col_info) THEN one_of(col_info.enum_values)
                      ELSE Values
         IN  IF col_info.nullable THEN nullable(strat) ELSE strat

(***************************************************************************)
(* generate.py: Type Mapper, the Strategy object it returns. A Strategy is *)
(* the generator function it wraps (by name) and the arguments it passes;   *)
(* a column name and a word of the heuristic are sequences of characters;  *)
(* 2 ** n is kept as the exponent n, since the bounds of an int8 column do  *)
(* not fit the integers of the checker.                                     *)
(***************************************************************************)
NoArgs == <<>>

\* Strategy(func, *args, **kwargs)
Strategy(func, args) == [func |-> func, args |-> args]

\* mapped_strat = None
NoStrategy == Strategy("None", NoArgs)

\* `x or default` of Python: None and 0 are false
or_default(x, default) == IF x = None \/ x = 0 THEN default ELSE x

\* word in col_name
is_substring(word, name) ==
    \E i \in 1..(Len(name) - Len(word) + 1) : SubSeq(name, i, i + Len(word) - 1) = word

\* map.py, lines 8-25: the dict in its insertion order
COL_NAME_STRATEGY_MAPPINGS ==
    <<
       [words |-> <<<<"a", "d", "d", "r", "e", "s", "s">>>>,
        strat |-> Strategy("address", NoArgs)],
       [words |-> <<<<"n", "a", "m", "e">>>>,
        strat |-> Strategy("name", NoArgs)],
       [words |-> <<<<"e", "m", "a", "i", "l">>>>,
        strat |-> Strategy("email", NoArgs)],
       [words |-> <<<<"p", "h", "o", "n", "e", "_", "n", "u", "m", "b", "e", "r">>>>,
        strat |-> Strategy("phone_number", NoArgs)],
       [words |-> <<<<"t", "e", "l", "e", "p", "h", "o", "n", "e">>>>,
        strat |-> Strategy("phone_number", NoArgs)],
       [words |-> <<<<"c", "i", "t", "y">>>>,
        strat |-> Strategy("city", NoArgs)],
       [words |-> <<<<"c", "o", "u", "n", "t", "r", "y">>>>,
        strat |-> Strategy("country", NoArgs)],
       [words |-> <<<<"z", "i", "p", "_", "c", "o", "d", "e">>>>,
        strat |-> Strategy("zipcode", NoArgs)],
       [words |-> <<<<"p", "o", "s", "t", "a", "l", "_", "c", "o", "d", "e">>>>,
        strat |-> Strategy("zipcode", NoArgs)],
       [words |-> <<<<"s", "t", "r", "e", "e", "t">>>>,
        strat |-> Strategy("street_address", NoArgs)],
       [words |-> <<<<"s", "t", "r", "e", "e", "t", "_", "a", "d", "d", "r", "e", "s", "s">>>>,
        strat |-> Strategy("street_address", NoArgs)],
       [words |-> <<<<"c", "u", "r", "r", "e", "n", "c", "y">>>>,
        strat |-> Strategy("currency_code", NoArgs)],
       [words |-> <<<<"c", "o", "m", "p", "a", "n", "y">>, <<"n", "a", "m", "e">>>>,
        strat |-> Strategy("company", NoArgs)],
       [words |-> <<<<"c", "o", "u", "n", "t", "e", "r", "p", "a", "r", "t", "y">>, <<"n", "a", "m", "e">>>>,
        strat |-> Strategy("counterparty_name_strategy", NoArgs)],
       [words |-> <<<<"c", "u", "s", "t", "o", "m", "e", "r">>, <<"n", "a", "m", "e">>>>,
        strat |-> Strategy("counterparty_name_strategy", NoArgs)],
       [words |-> <<<<"s", "u", "p", "p", "l", "i", "e", "r">>, <<"n", "a", "m", "e">>>>,
        strat |-> Strategy("counterparty_name_strategy", NoArgs)]
    >>

\* all(word in col_info["col_name"] for word in words)
rule_matches(rule, name) == \A k \in DOMAIN rule.words : is_substring(rule.words[k], name)

\* lines 59-62: for words, map_strat in ...items(): if all(...): mapped_strat = map_strat; break
first_match(mappings, name) ==
    IF \A k \in DOMAIN mappings : ~rule_matches(mappings[k], name) THEN NoStrategy
    ELSE mappings[CHOOSE k \in DOMAIN mappings :
                      /\ rule_matches(mappings[k], name)
                      /\ \A j \in DOMAIN mappings : rule_matches(mappings[j], name) => k <= j].strat

\* lines 56-68: the branch of varchar, text and bpchar
text_strategy(ci) ==
    LET mapped_strat == IF or_default(ci.character_maximum_length, None) = None
                        THEN first_match(COL_NAME_STRATEGY_MAPPINGS, ci.col_name)
                        ELSE NoStrategy
    IN  IF mapped_strat.func # "None" THEN mapped_strat
        ELSE IF or_default(ci.character_maximum_length, None) # None
             THEN Strategy("pystr", [max_chars |-> ci.character_maximum_length])
             ELSE Strategy("pystr", NoArgs)

\* lines 69-72
numeric_strategy_of(ci) ==
    LET precision == or_default(ci.numeric_precision, 53)
        scale == or_default(ci.numeric_scale, 0)
    IN  Strategy("pydecimal", [left_digits |-> precision - scale, right_digits |-> scale])

\* lines 75-79: max_value = 2 ** (precision - 1) - 1, min_value = -1 * max_value - 1
int_strategy_of(ci) ==
    LET precision == or_default(ci.numeric_precision, 32)
    IN  Strategy("pyint", [min_value |-> [minus_two_to |-> precision - 1],
                           max_value |-> [two_to |-> precision - 1, minus |-> 1]])

\* lines 84-89
bit_strategy_of(ci) ==
    IF or_default(ci.character_maximum_length, None) # None
    THEN Strategy("binary", [length |-> ci.character_maximum_length])
    ELSE Strategy("binary", NoArgs)

Unsupported == Strategy(UnsupportedPgtype, NoArgs)

\* lines 47-93: the if/elif chain; the result for an unsupported type stands for
\* the ValueError raised
base_strategy(ci) ==
    IF ci.pgtype = "uuid" THEN Strategy("uuid4", [cast_to |-> None])
    ELSE IF ci.pgtype = "date" THEN Strategy("date_between_dates", NoArgs)
    ELSE IF ci.pgtype \in {"timestamptz", "timestamp"}
         THEN Strategy("date_time_between_dates", NoArgs)
    ELSE IF ci.pgtype \in {"time", "timetz"} THEN Strategy("time", NoArgs)
    ELSE IF ci.pgtype \in {"varchar", "text", "bpchar"} THEN text_strategy(ci)
    ELSE IF ci.pgtype \in {"numeric", "money"} \/ startswith(ci.pgtype, "float")
         THEN numeric_strategy_of(ci)
    ELSE IF ci.pgtype = "bool" THEN Strategy("boolean", NoArgs)
    ELSE IF ci.pgtype \in {"int2", "int4", "int8"} THEN int_strategy_of(ci)
    ELSE IF ci.pgtype \in {"json", "jsonb"} THEN Strategy("json", NoArgs)
    ELSE IF ci.enum_values # <<>> THEN Strategy("one_of", ci.enum_values)
    ELSE IF ci.pgtype \in {"bit", "varbit"} THEN bit_strategy_of(ci)
    ELSE IF ci.pgtype = "xml" THEN Strategy("xml", NoArgs)
    ELSE Unsupported

\* lines 95-97: if col_info["nullable"]: return nullable(strat)
mapped_strategy(ci) ==
    IF base_strategy(ci).func = UnsupportedPgtype THEN Unsupported
    ELSE IF ci.nullable THEN Strategy("nullable", <<base_strategy(ci)>>)
    ELSE base_strategy(ci)

(***************************************************************************)
(* generate.py: relational helpers.                                        *)
(***************************************************************************)
select(r, cols) == [c \in cols \cap DOMAIN r |-> r[c]]

\* col_map = {v: k for k, v in fk["local_foreign_mapping"].items()}
col_map_keys(mapping) == {mapping[i][2] : i \in DOMAIN mapping}

col_map(mapping) ==
    [f \in col_map_keys(mapping) |->
        LET last == CHOOSE i \in DOMAIN mapping :
                        /\ mapping[i][2] = f
                        /\ \A j \in DOMAIN mapping : mapping[j][2] = f => j <= i
        IN  mapping[last][1]]

renamed_col(cm, c) == IF c \in DOMAIN cm THEN cm[c] ELSE c

\* the last item of the dict whose column is renamed to k
last_item(row_items, cm, k) ==
    CHOOSE i \in DOMAIN row_items :
        /\ renamed_col(cm, row_items[i][1]) = k
        /\ \A j \in DOMAIN row_items : renamed_col(cm, row_items[j][1]) = k => j <= i

\* mutant of rename: the foreign column names are kept
rename_not(row_items, cm) ==
    [k \in {row_items[i][1] : i \in DOMAIN row_items} |->
        row_items[last_item(row_items, <<>>, k)][2]]

\* {col_mapping.get(col, col): value for col, value in row.items()}, row_items
\* being row.items() in the insertion order of the dict: where two columns are
\* renamed to one name the later item wins
rename(row_items, cm) ==
    [k \in {renamed_col(cm, row_items[i][1]) : i \in DOMAIN row_items} |->
        row_items[last_item(row_items, cm, k)][2]]

\* tuple(row[col] for col in cols if col in row), cols being the set in the order
\* its iteration yields
select_values(r, cols) ==
    LET present == SelectSeq(cols, LAMBDA c : c \in DOMAIN r)
    IN  [i \in DOMAIN present |-> r[present[i]]]

RECURSIVE cross_join_from(_, _, _)
cross_join_from(rows1, rows2, i) ==
    IF i > Len(rows1) THEN <<>>
    ELSE [j \in DOMAIN rows2 |-> Merge(rows1[i], rows2[j])]
             \o cross_join_from(rows1, rows2, i + 1)

\* mutant of cross_join: only the last row of rows1 is combined
cross_join_last(rows1, rows2) == cross_join_from(rows1, rows2, Len(rows1))

cross_join(rows1, rows2) == cross_join_from(rows1, rows2, 1)

\* mutant of inner_join: the join condition is dropped
inner_join_unmatched(rows1, rows2, on_cols) == cross_join(rows1, rows2)

RECURSIVE inner_join_from(_, _, _, _)
inner_join_from(rows1, rows2, on_cols, i) ==
    IF i > Len(rows1) THEN <<>>
    ELSE LET row1 == rows1[i]
             hits == SelectSeq(rows2, LAMBDA row2 :
                        select_values(row1, on_cols) = select_values(row2, on_cols))
         IN  [j \in DOMAIN hits |-> Merge(row1, hits[j])]
                 \o inner_join_from(rows1, rows2, on_cols, i + 1)

\* on_cols is the set in the order its iteration yields, the same for both rows
inner_join(rows1, rows2, on_cols) == inner_join_from(rows1, rows2, on_cols, 1)

(***************************************************************************)
(* generate.py: FK Resolver.                                               *)
(***************************************************************************)
local_cols(fk) == {fk.local_foreign_mapping[i][1] : i \in DOMAIN fk.local_foreign_mapping}

foreign_cols(fk) == {fk.local_foreign_mapping[i][2] : i \in DOMAIN fk.local_foreign_mapping}

all_local_cols(fk_constraints) == UNION {local_cols(fk_constraints[i]) : i \in DOMAIN fk_constraints}

\* data.get(foreign_table, [])
store_get(store, table) == IF table \in DOMAIN store THEN store[table] ELSE <<>>

\* mutant of referencable_rows: rows holding a None are kept
referencable_rows_unfiltered(fk, store) ==
    [i \in DOMAIN store_get(store, fk.foreign_table) |->
        select(store_get(store, fk.foreign_table)[i], foreign_cols(fk))]

\* rows of the foreign table projected on the referenced columns, without the
\* rows that hold a None; then renamed to the local column names
referencable_rows(fk, store) ==
    LET projected == [i \in DOMAIN store_get(store, fk.foreign_table) |->
                          select(store_get(store, fk.foreign_table)[i], foreign_cols(fk))]
    IN  SelectSeq(projected, LAMBDA r : \A c \in DOMAIN r : r[c] # Null)

\* select(...) inserts the keys of a row in the order the iteration of the set
\* foreign_cols yields; col_map has one key per foreign column and one value per
\* local column, so no two items are renamed to one name and the renamed row is
\* the same for every such order
renamed_rows(fk, store) ==
    LET rows == referencable_rows(fk, store)
        cm == col_map(fk.local_foreign_mapping)
    IN  [i \in DOMAIN rows |-> rename(items_of(rows[i], some_order(DOMAIN rows[i])), cm)]

\* the body of `for fk in fk_constraints`, from constraint i on: the outcomes for
\* every order in which the set overlap_cols of an iteration can be walked
RECURSIVE fk_loop(_, _, _, _, _, _)
fk_loop(fk_constraints, store, i, seen_cols, first_loop, constrained_rows) ==
    IF i > Len(fk_constraints)
    THEN {[cols |-> seen_cols, rows |-> constrained_rows]}
    ELSE LET fk == fk_constraints[i]
             rows == renamed_rows(fk, store)
             overlap_cols == local_cols(fk) \cap seen_cols
             joins == IF first_loop THEN {rows}
                      ELSE IF overlap_cols # {}
                           THEN {inner_join(constrained_rows, rows, on_cols) :
                                    on_cols \in Perms(overlap_cols)}
                           ELSE {cross_join(constrained_rows, rows)}
         IN  IF rows = <<>>
             THEN {[cols |-> all_local_cols(fk_constraints), rows |-> <<>>]}
             ELSE UNION {fk_loop(fk_constraints, store, i + 1,
                                 seen_cols \cup local_cols(fk), FALSE, joined) :
                            joined \in joins}

\* mutant of sample_rows: the join is not cut
sample_rows_uncapped(constrained_rows, max_rows_) == constrained_rows

\* sampled_constrained_rows: the first max_rows rows of the join
sample_rows(constrained_rows, max_rows_) ==
    SubSeq(constrained_rows, 1, Min(Len(constrained_rows), max_rows_))

\* The results [cols, options] the call can return, one for every way the sets
\* of the loop can be walked; options = <<>> stands for "no strategy" (None).
get_fk_constrained_options(fk_constraints, store, max_rows_) ==
    {[cols |-> joined.cols, options |-> sample_rows(joined.rows, max_rows_)] :
        joined \in fk_loop(fk_constraints, store, 1, {}, TRUE, <<>>)}

(***************************************************************************)
(* generate.py: Row Engine.                                                *)
(***************************************************************************)
\* mutant of column_strategy: the override is not looked up
column_strategy_default(col_infos, override_strategies, col) ==
    col_info_to_strategy(col_infos[col])

\* override_strategies.get(col) or col_info_to_strategy(col_info)
column_strategy(col_infos, override_strategies, col) ==
    IF col \in DOMAIN override_strategies
    THEN override_strategies[col]
    ELSE col_info_to_strategy(col_infos[col])

\* The possible values of null_fk_col_names: each FK-constrained column is in
\* it when the one draw of its strategy returned None.
null_draws(col_infos, fk_constraints, override_strategies) ==
    {N \in SUBSET all_local_cols(fk_constraints) :
        /\ \A col \in N : Null \in column_strategy(col_infos, override_strategies, col)
        /\ \A col \in all_local_cols(fk_constraints) \ N :
               column_strategy(col_infos, override_strategies, col) # {Null}}

\* mutant of enforceable_fk_constraints: a null local column skips nothing
enforceable_all(fk_constraints, null_fk_col_names) == fk_constraints

\* [fk for fk in fk_constraints if not null_fk_col_names.intersection(local cols)]
enforceable_fk_constraints(fk_constraints, null_fk_col_names) ==
    SelectSeq(fk_constraints, LAMBDA fk : local_cols(fk) \cap null_fk_col_names = {})

\* mutant of fk_unsatisfiable: raises whenever there is no FK strategy
fk_unsatisfiable_no_strategy(opts) == opts.options = <<>>

\* if fk_constrained_cols and fk_strat is None: raise UnSatisfiableFkConstraintError
fk_unsatisfiable(opts) == opts.cols # {} /\ opts.options = <<>>

\* the three field groups of a row: the regular columns, the null-fixed columns
\* (the fixed_strategy({fk_col: None}) of line 198, taken together) and the FK
\* candidate drawn from fk_strat
FieldGroups(regular, null_fixed, fk_resolved) ==
    [regular |-> regular, null_fixed |-> null_fixed, fk_resolved |-> fk_resolved]

NoGroups == FieldGroups(EmptyRow, EmptyRow, EmptyRow)

\* mutant of merge_groups: the null-fixed columns are merged last
merge_groups_null_last(groups) ==
    dict_strategy(groups.regular, <<groups.fk_resolved, groups.null_fixed>>)

\* lines 219-222: others = null_fk_col_strats + [fk_strat];
\* dict_strategy(strategies, others).gen()
merge_groups(groups) ==
    dict_strategy(groups.regular, <<groups.null_fixed, groups.fk_resolved>>)

\* mutant of merged_rows: an overridden column is drawn from its override also
\* where the FK candidate sets it, and the override wins
merged_rows_override_wins(col_infos, override_strategies, null_fk_col_names, opts) ==
    LET regular_cols == ((DOMAIN col_infos) \ (null_fk_col_names \cup opts.cols))
                            \cup ((DOMAIN override_strategies) \ null_fk_col_names)
        regular == {r \in [regular_cols -> AnyValue] :
                       \A col \in regular_cols :
                           r[col] \in column_strategy(col_infos, override_strategies, col)}
        null_fixed == [col \in null_fk_col_names |-> Null]
        fk_rows == IF opts.options = <<>> THEN {EmptyRow} ELSE one_of(opts.options)
    IN  {[row |-> dict_strategy(fk_row, <<null_fixed, r>>),
          groups |-> FieldGroups(r, null_fixed, fk_row)] :
             r \in regular, fk_row \in fk_rows}

\* the rows dict_strategy(strategies, others).gen() can return, each with the
\* field groups it was merged from
merged_rows(col_infos, override_strategies, null_fk_col_names, opts) ==
    LET already_handled_cols == null_fk_col_names \cup opts.cols
        regular_cols == (DOMAIN col_infos) \ already_handled_cols
        regular == {r \in [regular_cols -> AnyValue] :
                       \A col \in regular_cols :
                           r[col] \in column_strategy(col_infos, override_strategies, col)}
        null_fixed == [col \in null_fk_col_names |-> Null]
        fk_rows == IF opts.options = <<>> THEN {EmptyRow} ELSE one_of(opts.options)
    IN  {[row |-> merge_groups(FieldGroups(r, null_fixed, fk_row)),
          groups |-> FieldGroups(r, null_fixed, fk_row)] :
             r \in regular, fk_row \in fk_rows}

\* the columns among cols for which col_info_to_strategy is called and raises:
\* `override_strategies.get(col) or col_info_to_strategy(...)` calls it only
\* where there is no override
unsupported_cols(col_infos, override_strategies, cols) ==
    {col \in cols : /\ col \notin DOMAIN override_strategies
                    /\ unsupported_pgtype(col_infos[col])}

\* The outcomes of one invocation of the strategy get_row(...) builds, for one
\* outcome of the null draws and one result of get_fk_constrained_options: the FK
\* check of lines 207-209 comes before the
\* strategies of the other columns are built (lines 214-218).
get_row_with(col_infos, override_strategies, null_fk_col_names, opts) ==
    LET regular_cols == (DOMAIN col_infos) \ (null_fk_col_names \cup opts.cols)
    IN  IF fk_unsatisfiable(opts)
        THEN {[kind |-> "UnSatisfiableFkConstraintError",
               nulls |-> null_fk_col_names, row |-> EmptyRow, groups |-> NoGroups]}
        ELSE IF unsupported_cols(col_infos, override_strategies, regular_cols) # {}
        THEN {[kind |-> UnsupportedPgtype, nulls |-> null_fk_col_names, row |-> EmptyRow,
               groups |-> NoGroups]}
        ELSE {[kind |-> "row", nulls |-> null_fk_col_names, row |-> m.row,
               groups |-> m.groups] :
                 m \in merged_rows(col_infos, override_strategies, null_fk_col_names, opts)}

\* line 206: fk_constrained_cols, fk_strat = get_fk_constrained_options(
\* enforceable_fk_constraints, data)
get_row_given(col_infos, fk_constraints, store, override_strategies, null_fk_col_names) ==
    UNION {get_row_with(col_infos, override_strategies, null_fk_col_names, opts) :
              opts \in get_fk_constrained_options(
                           enforceable_fk_constraints(fk_constraints, null_fk_col_names),
                           store, MAX_ROWS)}

get_row(col_infos, fk_constraints, store, override_strategies) ==
    IF unsupported_cols(col_infos, override_strategies, all_local_cols(fk_constraints)) # {}
    THEN {[kind |-> UnsupportedPgtype, nulls |-> {}, row |-> EmptyRow, groups |-> NoGroups]}
    ELSE UNION {get_row_given(col_infos, fk_constraints, store, override_strategies, N) :
                   N \in null_draws(col_infos, fk_constraints, override_strategies)}

NoRow == [kind |-> "none", nulls |-> {}, row |-> EmptyRow, groups |-> NoGroups]

(***************************************************************************)
(* pg.py: the schema types.                                                *)
(***************************************************************************)
TypedColInfo(name, type, is_nullable) ==
    [col_name |-> name, pgtype |-> type, nullable |-> is_nullable,
     character_maximum_length |-> None, numeric_precision |-> None,
     numeric_scale |-> None, enum_values |-> <<>>]

\* an int4 column
ColInfo(name, is_nullable) == TypedColInfo(name, "int4", is_nullable)

FkConstraint(local, foreign, mapping) ==
    [local_table |-> local, foreign_table |-> foreign, local_foreign_mapping |-> mapping]

TableInfo(name, cols, ucs, fks) ==
    [table |-> name, columns |-> cols, unique_constraints |-> ucs, fk_constraints |-> fks]

NoOverride == <<>>

EmptyStore == <<>>

\* tbl_override_strategies.get(tbl) if tbl_override_strategies else None
overrides_of(overrides, tbl) ==
    IF tbl \in DOMAIN overrides THEN overrides[tbl] ELSE NoOverride

(***************************************************************************)
(* Inputs of the row engine: the table child(a, b, c) of test_generate.py  *)
(* with FK constraints into parent1(a, b) and parent2(b, c).               *)
(***************************************************************************)
ChildCols == {"a", "b", "c"}

Parent1Cols == {"a", "b"}

Parent2Cols == {"b", "c"}

FkAB == FkConstraint("child", "parent1", <<<<"a", "a">>, <<"b", "b">>>>)

FkBC == FkConstraint("child", "parent2", <<<<"b", "b">>, <<"c", "c">>>>)

FkA == FkConstraint("child", "parent1", <<<<"a", "a">>>>)

FkC == FkConstraint("child", "parent2", <<<<"c", "c">>>>)

\* local and foreign names differ
FkSwap == FkConstraint("child", "parent1", <<<<"a", "b">>, <<"b", "a">>>>)

FkCtoB == FkConstraint("child", "parent2", <<<<"c", "b">>>>)

\* two local columns referencing one foreign column
FkTwice == FkConstraint("child", "parent1", <<<<"a", "a">>, <<"b", "a">>>>)

injective(fk) == Cardinality(foreign_cols(fk)) = Len(fk.local_foreign_mapping)

RowFkLists ==
    { <<>>, <<FkAB>>, <<FkAB, FkBC>>, <<FkBC, FkAB>>, <<FkA, FkC>>,
      <<FkSwap, FkBC>>, <<FkA, FkCtoB>>, <<FkAB, FkA>> }

RowOverrides ==
    { NoOverride, "c" :> fixed_strategy(Null), "b" :> fixed_strategy(1) }

RowNullable == { {}, {"c"}, {"a", "b", "c"} }

\* Some list holding the rows of S once each.
SetToSeq(S) == CHOOSE f \in [1..Cardinality(S) -> S] : \A x \in S : \E i \in DOMAIN f : f[i] = x

\* Rows of the foreign tables: the column b, which the constraints share, ranges
\* over None, the least and the greatest value in parent1 and over every value
\* in parent2; the columns a and c over None and one value.
Parent1Rows ==
    {r \in [Parent1Cols -> AnyValue] : r["a"] \in {Null, 1} /\ r["b"] \in {Null, 1, MaxVal}}

Parent2Rows == {r \in [Parent2Cols -> AnyValue] : r["c"] \in {Null, 1}}

Parent1Lists == {SetToSeq(S) : S \in {T \in SUBSET Parent1Rows : Cardinality(T) <= MaxStoreRows}}

Parent2Lists == {<<>>} \cup {<<r>> : r \in Parent2Rows}

RowStores ==
    {("parent1" :> rows1) @@ ("parent2" :> rows2) :
        rows1 \in Parent1Lists, rows2 \in Parent2Lists}
    \cup {"parent2" :> rows2 : rows2 \in Parent2Lists}

child_columns(nullable_cols) == [c \in ChildCols |-> ColInfo(c, c \in nullable_cols)]

Idle ==
    /\ kwargs = {}
    /\ row_counts = <<>>
    /\ graph_keys = <<>>
    /\ graph = <<>>
    /\ indegree = <<>>
    /\ queue = <<>>
    /\ sorted_tables = <<>>
    /\ sorted_tbls = <<>>
    /\ idx = 0
    /\ strats = {}
    /\ written = <<>>
    /\ min_length = 0
    /\ max_length = 0
    /\ max_iter = 0
    /\ length = 0
    /\ iters = 0
    /\ items = <<>>
    /\ seen = <<>>
    /\ row = NoRow
    /\ fk_constrained_cols = {}
    /\ fk_strat = <<>>
    /\ ret_strat = <<>>

RowInitWith(fk_lists) ==
    /\ \E fks \in fk_lists, nullable_cols \in RowNullable :
           schema = <<TableInfo("child", child_columns(nullable_cols), <<>>, fks)>>
    /\ \E ov \in RowOverrides : tbl_override_strategies = ("child" :> ov)
    /\ data \in RowStores
    /\ data_keys = SetToSeq(DOMAIN data)
    /\ pc = "get_row"
    /\ max_rows = MAX_ROWS
    /\ arg_col_info = <<>>
    /\ Idle

RowInit == RowInitWith(RowFkLists)

\* row_strategy.gen() for the strategy get_row(columns, fk_constraints, data, overrides)
GetRow ==
    /\ pc = "get_row"
    /\ row' \in get_row(schema[1].columns, schema[1].fk_constraints, data,
                        overrides_of(tbl_override_strategies, schema[1].table))
    /\ UNCHANGED <<arg_col_info, ret_strat, max_rows, fk_constrained_cols, fk_strat, kwargs, schema, row_counts, tbl_override_strategies, data, data_keys,
                   pc, graph_keys, graph, indegree, queue, sorted_tables, sorted_tbls,
                   idx, strats, written, min_length, max_length, max_iter, length, iters,
                   items, seen>>

RowNext == GetRow

SpecRow == RowInit /\ [][RowNext]_vars

(***************************************************************************)
(* pg.py: Dependency Orderer (topo_sort_tables), as get_db calls it:       *)
(* fk_constraints maps every table of the schema, in schema order, to its  *)
(* constraints, and all_tables lists the same tables.                      *)
(***************************************************************************)
all_tables(sch) == [i \in DOMAIN sch |-> sch[i].table]

\* schema_ = {tbl_info["table"]: tbl_info for tbl_info in schema}: a dict keeps
\* the last value given to a key, so the entry of a name the list repeats is
\* the last one of that name. Defined for the names of the schema only: the
\* lookup of another name is the KeyError of GetDbKeyError.
schema_(sch, name) ==
    sch[CHOOSE i \in DOMAIN sch :
            /\ sch[i].table = name
            /\ \A j \in DOMAIN sch : sch[j].table = name => j <= i]

\* the (local_table, foreign_table) pairs in the order the two nested loops of
\* lines 298-302 visit the dict get_db builds at generate.py line 275,
\* {table: fk_constraints}: a key stands where the list first names it and
\* holds the constraints of the last entry of that name
RECURSIVE edges_from(_, _)
edges_from(sch, i) ==
    IF i > Len(sch) THEN <<>>
    ELSE (IF \E j \in 1..(i - 1) : sch[j].table = sch[i].table
          THEN <<>>
          ELSE [k \in DOMAIN schema_(sch, sch[i].table).fk_constraints |->
                    <<sch[i].table,
                      schema_(sch, sch[i].table).fk_constraints[k].foreign_table>>])
         \o edges_from(sch, i + 1)

edges(sch) == edges_from(sch, 1)

\* the keys of `graph` after the loops, in insertion order
RECURSIVE first_seen(_, _, _)
first_seen(es, i, keys) ==
    IF i > Len(es) THEN keys
    ELSE first_seen(es, i + 1,
                    IF es[i][2] \in Range(keys) THEN keys ELSE Append(keys, es[i][2]))

\* graph[foreign_table].add(local_table)
graph_of(es) ==
    [f \in {es[i][2] : i \in DOMAIN es} |-> {es[i][1] : i \in {j \in DOMAIN es : es[j][2] = f}}]

\* indegree[local_table] += 1, once per constraint
indegree_of(es, names) ==
    [t \in names |-> Cardinality({i \in DOMAIN es : es[i][1] = t})]

\* graph[table] on a defaultdict(set)
graph_get(g, table) == IF table \in DOMAIN g THEN g[table] ELSE {}

\* the dependents whose indegree the decrement brings to 0
ready_dependents(dependents, indeg) == {d \in dependents : indeg[d] - 1 = 0}

\* mutant of cycle_detected: the check is missing
cycle_detected_never(sorted, keys) == FALSE

\* if len(sorted_tables) != len(graph)
cycle_detected(sorted, keys) == Len(sorted) # Len(keys)

\* missing_tables = set(all_tables) - set(sorted_tables)
missing_tables(sch, sorted) == Range(all_tables(sch)) \ Range(sorted)

\* mutant of with_missing: the tables the sort did not emit come first
with_missing_first(sorted, order) == order \o sorted

\* sorted_tables + list(missing_tables)
with_missing(sorted, order) == sorted \o order

\* lines 295-305: the graph, the indegrees and the initial queue
TopoBuild ==
    /\ pc = "start"
    /\ LET es == edges(schema)
           names == Range(all_tables(schema)) \cup {es[i][2] : i \in DOMAIN es}
       IN  /\ graph_keys' = first_seen(es, 1, <<>>)
           /\ graph' = graph_of(es)
           /\ indegree' = indegree_of(es, names)
           /\ queue' = SelectSeq(first_seen(es, 1, <<>>),
                                 LAMBDA t : indegree_of(es, names)[t] = 0)
    /\ sorted_tables' = <<>>
    /\ pc' = "topo"
    /\ UNCHANGED <<arg_col_info, ret_strat, max_rows, fk_constrained_cols, fk_strat, kwargs, schema, row_counts, tbl_override_strategies, data, data_keys,
                   sorted_tbls, idx, strats, written, min_length, max_length, max_iter,
                   length, iters, items, seen, row>>

\* lines 307-313: one iteration of `while queue`; the set graph[table] is walked in
\* any order, and reading graph[table] adds the key when it is absent
TopoPop ==
    /\ pc = "topo"
    /\ queue # <<>>
    /\ LET table == Head(queue)
           dependents == graph_get(graph, table)
       IN  /\ sorted_tables' = Append(sorted_tables, table)
           /\ graph_keys' = IF table \in Range(graph_keys) THEN graph_keys
                            ELSE Append(graph_keys, table)
           /\ graph' = IF table \in DOMAIN graph THEN graph ELSE graph @@ (table :> {})
           /\ indegree' = [t \in DOMAIN indegree |->
                              IF t \in dependents THEN indegree[t] - 1 ELSE indegree[t]]
           /\ \E order \in Perms(ready_dependents(dependents, indegree)) :
                  queue' = Tail(queue) \o order
    /\ UNCHANGED <<arg_col_info, ret_strat, max_rows, fk_constrained_cols, fk_strat, kwargs, schema, row_counts, tbl_override_strategies, data, data_keys,
                   pc, sorted_tbls, idx, strats, written, min_length, max_length,
                   max_iter, length, iters, items, seen, row>>

\* line 316: raise ValueError("Cycle detected in foreign key constraints")
TopoRaise ==
    /\ pc = "topo"
    /\ queue = <<>>
    /\ cycle_detected(sorted_tables, graph_keys)
    /\ pc' = "ValueError"
    /\ UNCHANGED <<arg_col_info, ret_strat, max_rows, fk_constrained_cols, fk_strat, kwargs, schema, row_counts, tbl_override_strategies, data, data_keys,
                   graph_keys, graph, indegree, queue, sorted_tables, sorted_tbls, idx,
                   strats, written, min_length, max_length, max_iter, length, iters,
                   items, seen, row>>

\* lines 317-318: return sorted_tables + list(missing_tables), the set in any order
TopoReturn ==
    /\ pc = "topo"
    /\ queue = <<>>
    /\ ~cycle_detected(sorted_tables, graph_keys)
    /\ \E order \in Perms(missing_tables(schema, sorted_tables)) :
           sorted_tbls' = with_missing(sorted_tables, order)
    /\ idx' = 1
    /\ pc' = "loop"
    /\ UNCHANGED <<arg_col_info, ret_strat, max_rows, fk_constrained_cols, fk_strat, kwargs, schema, row_counts, tbl_override_strategies, data, data_keys,
                   graph_keys, graph, indegree, queue, sorted_tables, strats, written,
                   min_length, max_length, max_iter, length, iters, items, seen, row>>

(***************************************************************************)
(* Inputs of the Dependency Orderer: the tables t1, t2, t3, each owning at *)
(* most MaxFks constraints into any of them (itself included).             *)
(***************************************************************************)
TopoTables == <<"t1", "t2", "t3">>

OneCol == "a" :> ColInfo("a", FALSE)

FkTo(local, foreign) == FkConstraint(local, foreign, <<<<"a", "a">>>>)

ForeignLists == UNION {[1..n -> Range(TopoTables)] : n \in 0..MaxFks}

TopoInitWith(owned) ==
    /\ \E foreign \in owned :
           schema = [i \in DOMAIN TopoTables |->
                        TableInfo(TopoTables[i], OneCol, <<>>,
                                  [k \in DOMAIN foreign[i] |->
                                      FkTo(TopoTables[i], foreign[i][k])])]
    /\ tbl_override_strategies = <<>>
    /\ data = EmptyStore
    /\ data_keys = <<>>
    /\ kwargs = {}
    /\ pc = "start"
    /\ max_rows = MAX_ROWS
    /\ arg_col_info = <<>>
    /\ Idle

TopoInit == TopoInitWith([DOMAIN TopoTables -> ForeignLists])

TopoNext == TopoBuild \/ TopoPop \/ TopoRaise \/ TopoReturn

SpecTopo == TopoInit /\ [][TopoNext]_vars

(***************************************************************************)
(* The same inputs, where the constraints of t1 may also name a table that *)
(* is not in all_tables: get_fk_constraints reads pg_constraint without a  *)
(* filter, get_schema lists the tables of information_schema.columns only. *)
(***************************************************************************)
OutsideTable == "t0"

ForeignListsAny ==
    UNION {[1..n -> Range(TopoTables) \cup {OutsideTable}] : n \in 0..MaxFks}

TopoInitAny ==
    TopoInitWith({[i \in DOMAIN TopoTables |-> IF i = 1 THEN first ELSE rest[i]] :
                     first \in ForeignListsAny,
                     rest \in [DOMAIN TopoTables \ {1} -> ForeignLists]})

SpecTopoAny == TopoInitAny /\ [][TopoNext]_vars

\* the tables a table references; a table outside the schema owns no constraint
references(sch, name) ==
    IF name \in Range(all_tables(sch))
    THEN {schema_(sch, name).fk_constraints[k].foreign_table :
              k \in DOMAIN schema_(sch, name).fk_constraints}
    ELSE {}

RECURSIVE reachable(_, _, _)
reachable(sch, S, n) ==
    IF n = 0 THEN S
    ELSE reachable(sch, S \cup UNION {references(sch, t) : t \in S}, n - 1)

\* the FK graph has a cycle: some table reaches itself over FK edges
cyclic(sch) ==
    \E t \in Range(all_tables(sch)) :
        t \in reachable(sch, references(sch, t), Len(sch))

\* i is the place of the table in the order
place(order, name) == {i \in DOMAIN order : order[i] = name}

\* C3: whenever topo_sort_tables returns a list, every table appears in it, after
\* every table one of its FK constraints references.
C3_OrderRespectsFks ==
    pc = "loop" =>
        \A i \in DOMAIN schema :
            /\ place(sorted_tbls, schema[i].table) # {}
            /\ \A f \in references(schema, schema[i].table) :
                   \E pf \in place(sorted_tbls, f) :
                       \A pt \in place(sorted_tbls, schema[i].table) : pf < pt

\* an order was returned in which a table owning two constraints into the same
\* table was appended after the sorted set, and another table owning a constraint
\* was emitted by the sort
C3_Witness ==
    /\ pc = "loop"
    /\ \E i \in DOMAIN schema :
           /\ Len(schema[i].fk_constraints) = 2
           /\ Cardinality(references(schema, schema[i].table)) = 1
           /\ schema[i].table \notin Range(sorted_tables)
    /\ \E i \in DOMAIN schema :
           /\ schema[i].fk_constraints # <<>>
           /\ schema[i].table \in Range(sorted_tables)

\* C5: topo_sort_tables raises the cycle-detected error only if the FK graph
\* contains a cycle.
C5_RaisesOnlyOnCycle ==
    pc = "ValueError" => cyclic(schema)

(***************************************************************************)
(* strategies.py: list_strategy, one action per iteration of its loop.     *)
(* The table whose rows are drawn is sorted_tbls[idx]; the item strategy   *)
(* is the row strategy of that table.                                      *)
(***************************************************************************)
tbl == sorted_tbls[idx]

table_info == schema_(schema, tbl)

\* the outcomes of row_strategy.gen() for the current table
row_strategy ==
    get_row(table_info.columns, table_info.fk_constraints, data,
            overrides_of(tbl_override_strategies, tbl))

\* get_uc_hasher(uc)(row): the key, or UnenforceableUniqueConstraintError when a
\* value of the key is None
row_hasher(uc, r) ==
    LET present == SelectSeq(uc, LAMBDA col : col \in DOMAIN r)
        hash == [k \in DOMAIN present |-> r[present[k]]]
    IN  [hash |-> hash, unenforceable |-> \E k \in DOMAIN hash : hash[k] = Null]

\* new_hashes: the keys of the constraints that can be enforced on the item
new_hashes(unique_constraints, item) ==
    [k \in {j \in DOMAIN unique_constraints :
                ~row_hasher(unique_constraints[j], item).unenforceable} |->
        row_hasher(unique_constraints[k], item).hash]

\* mutant of collides: a key is looked up under every constraint
collides_any_constraint(hashes, seen_keys) ==
    \E k \in DOMAIN hashes : \E j \in DOMAIN seen_keys : hashes[k] \in seen_keys[j]

\* any(new_hash in seen[i] for i, new_hash in new_hashes.items())
collides(hashes, seen_keys) == \E k \in DOMAIN hashes : hashes[k] \in seen_keys[k]

\* mutant of record_hashes: the keys of an accepted item are not recorded
record_nothing(hashes, seen_keys) == seen_keys

\* for i, new_hash in new_hashes.items(): seen[i].add(new_hash)
record_hashes(hashes, seen_keys) ==
    [k \in DOMAIN seen_keys |->
        IF k \in DOMAIN hashes THEN seen_keys[k] \cup {hashes[k]} ELSE seen_keys[k]]

\* mutant of list_continues: the loop is not bounded by max_iter
list_continues_unbounded == Len(items) < length

\* mutant of list_continues: no break on reaching the target length
list_continues_past_length == iters < max_iter

\* the loop runs another iteration
list_continues == iters < max_iter /\ Len(items) < length

\* lines 132-135: items = [], seen = {i: set()}, length = randint(min, max)
ListEnter(min_len, max_len, max_it) ==
    /\ min_length' = min_len
    /\ max_length' = max_len
    /\ max_iter' = max_it
    /\ length' \in min_len..max_len
    /\ iters' = 0
    /\ items' = <<>>
    /\ seen' = [k \in DOMAIN table_info.unique_constraints |-> {}]
    /\ pc' = "list"

\* lines 140-155: the item is accepted and its keys are recorded
ListAccept ==
    /\ pc = "list"
    /\ list_continues
    /\ \E out \in row_strategy :
           /\ out.kind = "row"
           /\ ~collides(new_hashes(table_info.unique_constraints, out.row), seen)
           /\ seen' = record_hashes(new_hashes(table_info.unique_constraints, out.row), seen)
           /\ items' = Append(items, out.row)
           /\ row' = out
    /\ iters' = iters + 1
    /\ UNCHANGED <<arg_col_info, ret_strat, max_rows, fk_constrained_cols, fk_strat, kwargs, schema, row_counts, tbl_override_strategies, data, data_keys,
                   pc, graph_keys, graph, indegree, queue, sorted_tables, sorted_tbls,
                   idx, strats, written, min_length, max_length, max_iter, length>>

\* mutant of ListReject: the keys of the dropped item are recorded
ListRejectRecording ==
    /\ pc = "list"
    /\ list_continues
    /\ \E out \in row_strategy :
           /\ out.kind = "row"
           /\ collides(new_hashes(table_info.unique_constraints, out.row), seen)
           /\ seen' = record_hashes(new_hashes(table_info.unique_constraints, out.row), seen)
           /\ row' = out
    /\ iters' = iters + 1
    /\ UNCHANGED <<arg_col_info, ret_strat, max_rows, fk_constrained_cols, fk_strat, kwargs, schema, row_counts,
                   tbl_override_strategies, data, data_keys, pc, graph_keys, graph,
                   indegree, queue, sorted_tables, sorted_tbls, idx, strats, written,
                   min_length, max_length, max_iter, length, items>>

\* lines 150-152: a key was seen before, the item is dropped
ListReject ==
    /\ pc = "list"
    /\ list_continues
    /\ \E out \in row_strategy :
           /\ out.kind = "row"
           /\ collides(new_hashes(table_info.unique_constraints, out.row), seen)
           /\ row' = out
    /\ iters' = iters + 1
    /\ UNCHANGED <<arg_col_info, ret_strat, max_rows, fk_constrained_cols, fk_strat, kwargs, schema, row_counts, tbl_override_strategies, data, data_keys,
                   pc, graph_keys, graph, indegree, queue, sorted_tables, sorted_tbls,
                   idx, strats, written, min_length, max_length, max_iter, length, items,
                   seen>>

\* line 140: strategy.gen() raises, and nothing in list_strategy, get_table or
\* get_db catches it
ListRaise ==
    /\ pc = "list"
    /\ list_continues
    /\ \E out \in row_strategy : out.kind # "row" /\ pc' = out.kind
    /\ UNCHANGED <<arg_col_info, ret_strat, max_rows, fk_constrained_cols, fk_strat, kwargs, schema, row_counts, tbl_override_strategies, data, data_keys,
                   graph_keys, graph, indegree, queue, sorted_tables, sorted_tbls, idx,
                   strats, written, min_length, max_length, max_iter, length, iters,
                   items, seen, row>>

\* lines 137-139 and 156-158: the loop ends, the items are returned
ListReturn ==
    /\ pc = "list"
    /\ ~list_continues
    /\ pc' = "list_done"
    /\ UNCHANGED <<arg_col_info, ret_strat, max_rows, fk_constrained_cols, fk_strat, kwargs, schema, row_counts, tbl_override_strategies, data, data_keys,
                   graph_keys, graph, indegree, queue, sorted_tables, sorted_tbls, idx,
                   strats, written, min_length, max_length, max_iter, length, iters,
                   items, seen, row>>

(***************************************************************************)
(* generate.py: Table Engine and Database Engine.                          *)
(***************************************************************************)
\* row_counts.get(tbl) if row_counts else None
row_count_of(counts, name) == IF name \in DOMAIN counts THEN counts[name] ELSE None

\* min_length=row_count if row_count is not None else MIN_ROWS
table_min_length(row_count) == IF row_count # None THEN row_count ELSE MIN_ROWS

\* max_length=row_count if row_count is not None else MAX_ROWS
table_max_length(row_count) == IF row_count # None THEN row_count ELSE MAX_ROWS

\* data[tbl] = rows
store_put(store, name, rows) ==
    [t \in (DOMAIN store) \cup {name} |-> IF t = name THEN rows ELSE store[t]]

\* a dict keeps its keys in insertion order; assigning to a key it holds leaves
\* the key in its place
dict_keys_put(keys, name) == IF name \in Range(keys) THEN keys ELSE Append(keys, name)

\* the parameters of get_db, lines 264-267
get_db_params == {"schema", "data", "row_counts", "tbl_override_strategies"}

\* the call get_db(schema, name=value, ...): a keyword that is no parameter of
\* the function is a TypeError of the call, before the body runs
GetDbCall ==
    /\ pc = "get_db"
    /\ pc' = IF kwargs \subseteq get_db_params THEN "start" ELSE "TypeError"
    /\ UNCHANGED <<arg_col_info, ret_strat, max_rows, fk_constrained_cols, fk_strat, kwargs, schema, row_counts, tbl_override_strategies, data, data_keys,
                   graph_keys, graph, indegree, queue, sorted_tables, sorted_tbls, idx,
                   strats, written, min_length, max_length, max_iter, length, iters,
                   items, seen, row>>

\* get_db, line 283: schema_[tbl] for a table topo_sort_tables emitted that is
\* no table of the schema, the foreign table of a constraint: the KeyError of the
\* dict lookup, which get_db does not catch; the entries written so far stay in
\* the store the caller passed
GetDbKeyError ==
    /\ pc = "loop"
    /\ idx <= Len(sorted_tbls)
    /\ tbl \notin Range(all_tables(schema))
    /\ pc' = "KeyError"
    /\ UNCHANGED <<arg_col_info, ret_strat, max_rows, fk_constrained_cols, fk_strat, kwargs, schema, row_counts, tbl_override_strategies, data, data_keys,
                   graph_keys, graph, indegree, queue, sorted_tables, sorted_tbls, idx,
                   strats, written, min_length, max_length, max_iter, length, iters,
                   items, seen, row>>

\* get_table, lines 247-252: the trial invocation raises, the table strategy is
\* fixed_strategy([]); get_db, lines 288-289, stores its value
GetTableEmpty ==
    /\ pc = "loop"
    /\ idx <= Len(sorted_tbls)
    /\ tbl \in Range(all_tables(schema))
    /\ \E out \in row_strategy : out.kind = "UnSatisfiableFkConstraintError"
    /\ strats' = strats \cup {tbl}
    /\ data' = store_put(data, tbl, <<>>)
    /\ data_keys' = dict_keys_put(data_keys, tbl)
    /\ written' = Append(written, tbl)
    /\ idx' = idx + 1
    /\ UNCHANGED <<arg_col_info, ret_strat, max_rows, fk_constrained_cols, fk_strat, kwargs, schema, row_counts, tbl_override_strategies, pc, graph_keys,
                   graph, indegree, queue, sorted_tables, sorted_tbls, min_length,
                   max_length, max_iter, length, iters, items, seen, row>>

\* get_table, lines 247-249: the trial invocation raises the error of
\* col_info_to_strategy, which get_table does not catch, nor does get_db
GetTableRaise ==
    /\ pc = "loop"
    /\ idx <= Len(sorted_tbls)
    /\ tbl \in Range(all_tables(schema))
    /\ \E out \in row_strategy : out.kind = UnsupportedPgtype
    /\ pc' = UnsupportedPgtype
    /\ UNCHANGED <<arg_col_info, ret_strat, max_rows, fk_constrained_cols, fk_strat, kwargs, schema, row_counts, tbl_override_strategies, data, data_keys,
                   graph_keys, graph, indegree, queue, sorted_tables, sorted_tbls, idx,
                   strats, written, min_length, max_length, max_iter, length, iters,
                   items, seen, row>>

\* get_table, lines 247-260: the trial invocation returns a row, which is dropped;
\* get_db, line 289, invokes the list strategy
GetTableList ==
    /\ pc = "loop"
    /\ idx <= Len(sorted_tbls)
    /\ tbl \in Range(all_tables(schema))
    /\ \E out \in row_strategy : out.kind = "row"
    /\ strats' = strats \cup {tbl}
    /\ ListEnter(table_min_length(row_count_of(row_counts, tbl)),
                 table_max_length(row_count_of(row_counts, tbl)),
                 DEFAULT_MAX_ITER)
    /\ UNCHANGED <<arg_col_info, ret_strat, max_rows, fk_constrained_cols, fk_strat, kwargs, schema, row_counts, tbl_override_strategies, data, data_keys,
                   graph_keys, graph, indegree, queue, sorted_tables, sorted_tbls, idx,
                   written, row>>

\* get_db, line 289: data[tbl] = table_strat.gen(); the locals of the finished
\* list_strategy call are gone
GetDbStore ==
    /\ pc = "list_done"
    /\ data' = store_put(data, tbl, items)
    /\ data_keys' = dict_keys_put(data_keys, tbl)
    /\ written' = Append(written, tbl)
    /\ idx' = idx + 1
    /\ pc' = "loop"
    /\ min_length' = 0
    /\ max_length' = 0
    /\ max_iter' = 0
    /\ length' = 0
    /\ iters' = 0
    /\ items' = <<>>
    /\ seen' = <<>>
    /\ row' = NoRow
    /\ UNCHANGED <<arg_col_info, ret_strat, max_rows, fk_constrained_cols, fk_strat, kwargs, schema, row_counts, tbl_override_strategies, graph_keys, graph,
                   indegree, queue, sorted_tables, sorted_tbls, strats>>

\* get_db, line 292: return data
GetDbReturn ==
    /\ pc = "loop"
    /\ idx > Len(sorted_tbls)
    /\ pc' = "done"
    /\ UNCHANGED <<arg_col_info, ret_strat, max_rows, fk_constrained_cols, fk_strat, kwargs, schema, row_counts, tbl_override_strategies, data, data_keys,
                   graph_keys, graph, indegree, queue, sorted_tables, sorted_tbls, idx,
                   strats, written, min_length, max_length, max_iter, length, iters,
                   items, seen, row>>

(***************************************************************************)
(* Inputs of get_db: the tables t1, t2, t3 with one column a, nullable or  *)
(* not, unique or not; each table owns at most one FK constraint, a -> a,  *)
(* into any of the three; the row count of a table is 0, 1 or MaxRowCount,  *)
(* at most one table is asked for more than one row and at most one for    *)
(* none; at most one table has a second column, of a type the Type Mapper  *)
(* does not know; the schemas with a unique constraint have neither        *)
(* nullable columns nor such a column. In the schemas of DbDanglingForeign *)
(* the last table references a table the schema does not list. The store   *)
(* the caller passes is empty, or one of DbStores.                         *)
(***************************************************************************)
DbForeign == {<<>>} \cup {<<t>> : t \in Range(TopoTables)}

DbUnique == {<<>>, <<<<"a">>>>}

\* the keyword arguments of the call: row_counts, as the tests pass it; with or
\* without col_name_strategy_mappings, as run() and test_configurable_mappings
\* pass it
DbKwargs == {{"row_counts"}}

DbKwargsAny == {{"row_counts"}, {"row_counts", "col_name_strategy_mappings"}}

DbRowCounts ==
    { rc \in [Range(TopoTables) -> {0, 1, MaxRowCount}] :
        /\ Cardinality({t \in Range(TopoTables) : rc[t] > 1}) <= 1
        /\ Cardinality({t \in Range(TopoTables) : rc[t] = 0}) <= 1 }

\* no table, or one table, has a second column b of a type without mapping
DbUnsupported == {{}} \cup {{t} : t \in Range(TopoTables)}

db_columns(is_nullable, unsupported) ==
    IF unsupported
    THEN ("a" :> ColInfo("a", is_nullable)) @@ ("b" :> TypedColInfo("b", "point", FALSE))
    ELSE "a" :> ColInfo("a", is_nullable)

\* The schema with a unique constraint: t1, t2 references t1 and t3 references
\* t2; MaxRowCount rows are asked for t1, whose rows can collide, and none for
\* the others. list_strategy runs up to DEFAULT_MAX_ITER iterations there, and
\* they are all followed.
DbUniqueForeign == [i \in DOMAIN TopoTables |-> IF i = 1 THEN <<>> ELSE <<TopoTables[i - 1]>>]

DbUniqueRowCounts == [t \in Range(TopoTables) |-> IF t = TopoTables[1] THEN MaxRowCount ELSE 0]

\* The schemas with a constraint into a table that is no table of the schema:
\* the last table references OutsideTable, the first owns no constraint and
\* those between own none or reference the first.
DbDanglingForeign ==
    {[i \in DOMAIN TopoTables |->
         IF i = Len(TopoTables) THEN <<OutsideTable>>
         ELSE IF i = 1 THEN <<>> ELSE mid] : mid \in {<<>>, <<TopoTables[1]>>}}

DbInitWith(kwargs_sets, stores) ==
    /\ data \in stores
    /\ \E foreign \in [DOMAIN TopoTables -> DbForeign] \cup DbDanglingForeign,
          nullable_tables \in SUBSET Range(TopoTables),
          unsupported_tables \in DbUnsupported,
          ucs \in DbUnique :
           /\ ucs # <<>> => (/\ nullable_tables = {}
                             /\ unsupported_tables = {}
                             /\ foreign = DbUniqueForeign)
           /\ foreign \in DbDanglingForeign =>
                  (ucs = <<>> /\ nullable_tables = {} /\ unsupported_tables = {})
           /\ row_counts \in (IF ucs # <<>> THEN {DbUniqueRowCounts} ELSE DbRowCounts)
           /\ data # EmptyStore =>
                  (ucs = <<>> /\ nullable_tables = {} /\ unsupported_tables = {})
           /\ schema = [i \in DOMAIN TopoTables |->
                        TableInfo(TopoTables[i],
                                  db_columns(TopoTables[i] \in nullable_tables,
                                             TopoTables[i] \in unsupported_tables),
                                  ucs,
                                  [k \in DOMAIN foreign[i] |->
                                      FkTo(TopoTables[i], foreign[i][k])])]
    /\ tbl_override_strategies = <<>>
    /\ data_keys = SetToSeq(DOMAIN data)
    /\ kwargs \in kwargs_sets
    /\ pc = "get_db"
    /\ max_rows = MAX_ROWS
    /\ arg_col_info = <<>>
    /\ graph_keys = <<>>
    /\ graph = <<>>
    /\ indegree = <<>>
    /\ queue = <<>>
    /\ sorted_tables = <<>>
    /\ sorted_tbls = <<>>
    /\ idx = 0
    /\ strats = {}
    /\ written = <<>>
    /\ min_length = 0
    /\ max_length = 0
    /\ max_iter = 0
    /\ length = 0
    /\ iters = 0
    /\ items = <<>>
    /\ seen = <<>>
    /\ row = NoRow
    /\ fk_constrained_cols = {}
    /\ fk_strat = <<>>
    /\ ret_strat = <<>>

DbInit == DbInitWith(DbKwargs, {EmptyStore})

Next ==
    \/ GetDbCall
    \/ TopoBuild
    \/ TopoPop
    \/ TopoRaise
    \/ TopoReturn
    \/ GetDbKeyError
    \/ GetTableEmpty
    \/ GetTableRaise
    \/ GetTableList
    \/ ListAccept
    \/ ListReject
    \/ ListRaise
    \/ ListReturn
    \/ GetDbStore
    \/ GetDbReturn

\* get_db(schema, None, row_counts, None)
Spec == DbInit /\ [][Next]_vars

\* get_db called with or without the keyword col_name_strategy_mappings
DbInitAny == DbInitWith(DbKwargsAny, {EmptyStore})

\* get_db called with a store that holds one row for one table of the schema,
\* on the schemas without unique constraint, nullable column and unmapped type
DbStores == {t :> <<"a" :> 1>> : t \in Range(TopoTables)}

DbInitStore ==
    \/ DbInit
    \/ DbInitWith({{"data", "row_counts"}}, DbStores)

SpecStore == DbInitStore /\ [][Next]_vars

SpecKwargs == DbInitAny /\ [][Next]_vars

(***************************************************************************)
(* Inputs of list_strategy called on its own: the row strategy of a table  *)
(* t(a, b) without FK constraints, any min_length <= max_length up to      *)
(* MaxRowCount, max_iter up to MaxAttempts, and up to two unique           *)
(* constraints, single or composite.                                       *)
(***************************************************************************)
ListCols == {"a", "b"}

ListUnique ==
    { <<>>, <<<<"a">>>>, <<<<"a", "b">>>>, <<<<"a">>, <<"b">>>>, <<<<"b">>, <<"a", "b">>>> }

ListNullable == { {}, {"a"}, {"a", "b"} }

ListInitWith(unique_constraints, nullable_sets) ==
    /\ \E ucs \in unique_constraints, nullable_cols \in nullable_sets :
           schema = <<TableInfo("t", [c \in ListCols |-> ColInfo(c, c \in nullable_cols)],
                                ucs, <<>>)>>
    /\ row_counts = <<>>
    /\ tbl_override_strategies = <<>>
    /\ data = EmptyStore
    /\ data_keys = <<>>
    /\ kwargs = {}
    /\ pc = "call"
    /\ max_rows = MAX_ROWS
    /\ arg_col_info = <<>>
    /\ graph_keys = <<>>
    /\ graph = <<>>
    /\ indegree = <<>>
    /\ queue = <<>>
    /\ sorted_tables = <<>>
    /\ sorted_tbls = <<"t">>
    /\ idx = 1
    /\ strats = {}
    /\ written = <<>>
    /\ min_length = 0
    /\ max_length = 0
    /\ max_iter = 0
    /\ length = 0
    /\ iters = 0
    /\ items = <<>>
    /\ seen = <<>>
    /\ row = NoRow
    /\ fk_constrained_cols = {}
    /\ fk_strat = <<>>
    /\ ret_strat = <<>>

ListInit == ListInitWith(ListUnique, ListNullable)

\* list_strategy(row_strategy, min_length, max_length, unique_bys, max_iter).gen()
ListCall ==
    /\ pc = "call"
    /\ \E min_len \in 0..MaxRowCount, max_len \in 0..MaxRowCount, max_it \in 0..MaxAttempts :
           /\ min_len <= max_len
           /\ ListEnter(min_len, max_len, max_it)
    /\ UNCHANGED <<arg_col_info, ret_strat, max_rows, fk_constrained_cols, fk_strat, kwargs, schema, row_counts, tbl_override_strategies, data, data_keys,
                   graph_keys, graph, indegree, queue, sorted_tables, sorted_tbls, idx,
                   strats, written, row>>

ListNext == ListCall \/ ListAccept \/ ListReject \/ ListReturn

SpecList == ListInit /\ [][ListNext]_vars

\* the call runs on: a loop iteration that can be taken is taken; the table has
\* no unique constraint or the unique constraint (a), and no nullable column
ListInitFair == ListInitWith({<<>>, <<<<"a">>>>}, {{}})

SpecListFair == ListInitFair /\ [][ListNext]_vars /\ WF_vars(ListNext)

RowInitAny == RowInitWith(RowFkLists \cup {<<FkTwice>>, <<FkTwice, FkBC>>})

\* The row engine over FK constraints whose mapping may name a foreign column twice.
SpecRowAny == RowInitAny /\ [][RowNext]_vars

(***************************************************************************)
(* The merge of line 222 on any three field groups over the columns of the *)
(* child table, whether or not their keys overlap: row holds the groups,   *)
(* then the merged row.                                                    *)
(***************************************************************************)
\* the rows with columns among cols and values among values
PartialRows(cols, values) == UNION {[S -> values] : S \in SUBSET cols}

MergeGroups ==
    {FieldGroups(r, n, f) : r \in PartialRows(ChildCols, AnyValue),
                            n \in PartialRows(ChildCols, {Null}),
                            f \in PartialRows(ChildCols, Values)}

MergeInit ==
    /\ schema = <<TableInfo("child", child_columns({"a", "b", "c"}), <<>>, <<>>)>>
    /\ tbl_override_strategies = ("child" :> NoOverride)
    /\ data = EmptyStore
    /\ data_keys = <<>>
    /\ pc = "dict_strategy"
    /\ max_rows = MAX_ROWS
    /\ arg_col_info = <<>>
    /\ kwargs = {}
    /\ row_counts = <<>>
    /\ graph_keys = <<>>
    /\ graph = <<>>
    /\ indegree = <<>>
    /\ queue = <<>>
    /\ sorted_tables = <<>>
    /\ sorted_tbls = <<>>
    /\ idx = 0
    /\ strats = {}
    /\ written = <<>>
    /\ min_length = 0
    /\ max_length = 0
    /\ max_iter = 0
    /\ length = 0
    /\ iters = 0
    /\ items = <<>>
    /\ seen = <<>>
    /\ fk_constrained_cols = {}
    /\ fk_strat = <<>>
    /\ ret_strat = <<>>
    /\ \E g \in MergeGroups :
           row = [kind |-> "groups", nulls |-> DOMAIN g.null_fixed, row |-> EmptyRow,
                  groups |-> g]

\* dict_strategy(strategies, others).gen() on the groups
DictStrategy ==
    /\ pc = "dict_strategy"
    /\ row.kind = "groups"
    /\ row' = [row EXCEPT !.kind = "row", !.row = merge_groups(row.groups)]
    /\ UNCHANGED <<arg_col_info, ret_strat, max_rows, fk_constrained_cols, fk_strat, kwargs, schema, row_counts, tbl_override_strategies, data, data_keys,
                   pc, graph_keys, graph, indegree, queue, sorted_tables, sorted_tbls,
                   idx, strats, written, min_length, max_length, max_iter, length, iters,
                   items, seen>>

RowMergeNext == GetRow \/ DictStrategy

\* get_row on tables with no constraint, with two constraints sharing a column,
\* with renamed columns, and with one constraint inside another
RowInitMerge == RowInitWith({<<>>, <<FkAB, FkBC>>, <<FkSwap, FkBC>>, <<FkAB, FkA>>})

SpecRowMerge == (RowInitMerge \/ MergeInit) /\ [][RowMergeNext]_vars

(***************************************************************************)
(* get_fk_constrained_options called on its own, as test_generate.py does:  *)
(* the constraints of child, a store of parent1 and parent2 rows in any     *)
(* order and with repetitions, and a cap max_rows that is small or the      *)
(* default. One store is the fixture parent_data of test_generate.py, its   *)
(* strings a<i>, b<i>, c<i> written as the numbers 100+i, 200+i, 300+i.      *)
(***************************************************************************)
Lists(S, n) == UNION {[1..k -> S] : k \in 0..n}

OptionParent1Rows == {r \in [Parent1Cols -> AnyValue] : r["a"] = 1}

OptionParent2Rows == {r \in [Parent2Cols -> AnyValue] : r["c"] = 1}

OptionStores ==
    {("parent1" :> rows1) @@ ("parent2" :> rows2) :
        rows1 \in Lists(OptionParent1Rows, MaxStoreRows),
        rows2 \in Lists(OptionParent2Rows, MaxStoreRows)}

parent_data ==
    ("parent1" :> [i \in 1..10 |-> ("a" :> 100 + (i - 1)) @@ ("b" :> 200 + (i - 1))])
    @@ ("parent2" :> [i \in 1..5 |-> ("b" :> 200 + (i + 4)) @@ ("c" :> 300 + (i + 4))])

OptionCaps == (1..MaxCap) \cup {MAX_ROWS}

OptionsInit ==
    /\ \/ /\ \E fks \in RowFkLists :
                 schema = <<TableInfo("child", child_columns({}), <<>>, fks)>>
          /\ data \in OptionStores
          /\ max_rows \in OptionCaps
       \/ /\ schema = <<TableInfo("child", child_columns({}), <<>>, <<FkAB, FkBC>>)>>
          /\ data = parent_data
          /\ max_rows = MAX_ROWS
    /\ arg_col_info = <<>>
    /\ tbl_override_strategies = ("child" :> NoOverride)
    /\ data_keys = SetToSeq(DOMAIN data)
    /\ pc = "get_fk_constrained_options"
    /\ Idle

\* cols, strat = get_fk_constrained_options(fk_constraints, data, max_rows)
GetFkConstrainedOptions ==
    /\ pc = "get_fk_constrained_options"
    /\ \E opts \in get_fk_constrained_options(schema[1].fk_constraints, data, max_rows) :
           /\ fk_constrained_cols' = opts.cols
           /\ fk_strat' = opts.options
    /\ pc' = "returned"
    /\ UNCHANGED <<arg_col_info, ret_strat, max_rows, kwargs, schema, row_counts, tbl_override_strategies, data,
                   data_keys, graph_keys, graph, indegree, queue, sorted_tables,
                   sorted_tbls, idx, strats, written, min_length, max_length, max_iter,
                   length, iters, items, seen, row>>

OptionsNext == GetFkConstrainedOptions

SpecOptions == OptionsInit /\ [][OptionsNext]_vars

(***************************************************************************)
(* col_info_to_strategy called on its own: every type tag of the mapper,   *)
(* an enum type (mood) and a type without rule (point), with and without   *)
(* enum labels, max length, precision and scale, and the column names      *)
(* company_name, name, email, customer_name, street_address, username and  *)
(* title.                                                                  *)
(***************************************************************************)
MapperTypes ==
    scalar_pgtype_tags \cup late_pgtype_tags
        \cup {"float4", "float8", "floaty", "mood", "point"}

MapperNames ==
    { <<"c", "o", "m", "p", "a", "n", "y", "_", "n", "a", "m", "e">>,
      <<"n", "a", "m", "e">>,
      <<"e", "m", "a", "i", "l">>,
      <<"c", "u", "s", "t", "o", "m", "e", "r", "_", "n", "a", "m", "e">>,
      <<"s", "t", "r", "e", "e", "t", "_", "a", "d", "d", "r", "e", "s", "s">>,
      <<"u", "s", "e", "r", "n", "a", "m", "e">>,
      <<"t", "i", "t", "l", "e">> }

MapperLabels == {<<>>, <<"happy", "sad">>}

MapperColInfos ==
    [col_name : MapperNames, pgtype : MapperTypes, nullable : BOOLEAN,
     character_maximum_length : {None, 10}, numeric_precision : {None, 16, 32, 64},
     numeric_scale : {None, 2}, enum_values : MapperLabels]

MapperInit ==
    /\ arg_col_info \in MapperColInfos
    /\ schema = <<>>
    /\ tbl_override_strategies = <<>>
    /\ data = EmptyStore
    /\ data_keys = <<>>
    /\ pc = "col_info_to_strategy"
    /\ max_rows = MAX_ROWS
    /\ Idle

\* strat = col_info_to_strategy(col_info)
ColInfoToStrategy ==
    /\ pc = "col_info_to_strategy"
    /\ ret_strat' = mapped_strategy(arg_col_info)
    /\ pc' = IF mapped_strategy(arg_col_info).func = UnsupportedPgtype
             THEN UnsupportedPgtype ELSE "returned"
    /\ UNCHANGED <<arg_col_info, max_rows, fk_constrained_cols, fk_strat, kwargs, schema,
                   row_counts, tbl_override_strategies, data, data_keys, graph_keys,
                   graph, indegree, queue, sorted_tables, sorted_tbls, idx, strats,
                   written, min_length, max_length, max_iter, length, iters, items, seen,
                   row>>

MapperNext == ColInfoToStrategy

SpecMapper == MapperInit /\ [][MapperNext]_vars

(***************************************************************************)
(* Reference notions, stated on rows and on the store alone.               *)
(***************************************************************************)
Child == schema[1]

Produced == row.kind = "row"

Raised == row.kind = "UnSatisfiableFkConstraintError"

\* a local column of the constraint is null in the row
has_null_local(fk, r) == \E c \in local_cols(fk) : c \in DOMAIN r /\ r[c] = Null

\* the foreign table holds a row whose referenced columns are all non-null and
\* equal, through the mapping, to the local columns of r
fk_matched(fk, r, store) ==
    \E i \in DOMAIN store_get(store, fk.foreign_table) :
        LET foreign_row == store_get(store, fk.foreign_table)[i]
        IN  \A k \in DOMAIN fk.local_foreign_mapping :
                LET local == fk.local_foreign_mapping[k][1]
                    foreign == fk.local_foreign_mapping[k][2]
                IN  /\ foreign \in DOMAIN foreign_row
                    /\ foreign_row[foreign] # Null
                    /\ local \in DOMAIN r
                    /\ r[local] = foreign_row[foreign]

\* the constraints none of whose local columns drew null
not_skipped(fk_constraints, nulls) ==
    {fk_constraints[i] : i \in {j \in DOMAIN fk_constraints :
                                   local_cols(fk_constraints[j]) \cap nulls = {}}}

\* the reference join: the assignments to the local columns of the constraints
\* that match every one of them
reference_join(fks, store) ==
    {r \in [UNION {local_cols(fk) : fk \in fks} -> Values] :
        \A fk \in fks : fk_matched(fk, r, store)}

\* C1: every row produced by get_row satisfies every FK constraint of the table:
\* a local column of the constraint is null in the row, or the foreign table of
\* the store holds a row whose referenced columns are non-null and equal to the
\* row's local columns through the mapping.
C1_FkSatisfied ==
    Produced =>
        \A i \in DOMAIN Child.fk_constraints :
            \/ has_null_local(Child.fk_constraints[i], row.row)
            \/ fk_matched(Child.fk_constraints[i], row.row, data)

\* a row joined over two composite constraints that share the column b, from a
\* store in which some parent1 row has no partner in parent2
C1_Witness ==
    /\ Produced
    /\ Child.fk_constraints = <<FkAB, FkBC>>
    /\ \A c \in ChildCols : row.row[c] # Null
    /\ \E i \in DOMAIN store_get(data, "parent1") :
           /\ data["parent1"][i]["a"] # Null
           /\ data["parent1"][i]["b"] \notin {Null, row.row["b"]}

\* C8: the row strategy raises UnSatisfiableFkConstraintError exactly when some
\* constraint is enforceable for the row and the join of the enforceable
\* constraints has no candidate; when an enforceable constraint has no
\* referencable row the resolver returns the local columns of all constraints
\* passed, with no strategy.
C8_RaisesIffNoCandidate ==
    row.kind # "none" =>
        LET enforced == not_skipped(Child.fk_constraints, row.nulls)
            passed == enforceable_fk_constraints(Child.fk_constraints, row.nulls)
        IN  /\ Raised <=> (enforced # {} /\ reference_join(enforced, data) = {})
            /\ (\E fk \in enforced : referencable_rows(fk, data) = <<>>) =>
                   get_fk_constrained_options(passed, data, MAX_ROWS) =
                       {[cols |-> UNION {local_cols(fk) : fk \in enforced},
                         options |-> <<>>]}

\* the error is raised although every foreign table has a referencable row: the
\* join over the shared column is empty
C8_Witness ==
    /\ Raised
    /\ Child.fk_constraints = <<FkAB, FkBC>>
    /\ row.nulls = {}
    /\ referencable_rows(FkAB, data) # <<>>
    /\ referencable_rows(FkBC, data) # <<>>

\* C9: the FK-constrained columns that drew null are null in the row; every
\* constraint without such a column is matched by the row; a constraint with such
\* a column is not enforced, so the error is raised only when the other
\* constraints have no candidate.  With child(a,b)->parent1(a,b),
\* child(b,c)->parent2(b,c) and c always null, each row is a parent1 row
\* extended with c = null.
C9_NullSkipsConstraint ==
    /\ Produced =>
          /\ \A c \in row.nulls : c \in DOMAIN row.row /\ row.row[c] = Null
          /\ \A fk \in not_skipped(Child.fk_constraints, row.nulls) :
                 fk_matched(fk, row.row, data)
    /\ Raised =>
          reference_join(not_skipped(Child.fk_constraints, row.nulls), data) = {}
    /\ ( /\ Child.fk_constraints = <<FkAB, FkBC>>
         /\ tbl_override_strategies["child"] = ("c" :> fixed_strategy(Null))
         /\ ~Child.columns["a"].nullable
         /\ ~Child.columns["b"].nullable )
       => /\ Produced =>
                \E i \in DOMAIN store_get(data, "parent1") :
                    row.row = Merge(data["parent1"][i], "c" :> Null)
          /\ Raised => referencable_rows(FkAB, data) = <<>>

\* c drew null, so child(b,c)->parent2(b,c) is skipped although b is non-null and
\* parent2 holds no row with that b
C9_Witness ==
    /\ Produced
    /\ Child.fk_constraints = <<FkAB, FkBC>>
    /\ row.nulls = {"c"}
    /\ row.row["b"] # Null
    /\ \A i \in DOMAIN store_get(data, "parent2") : data["parent2"][i]["b"] # row.row["b"]

\* C10 as stated: for any mapping from local to foreign column names, the key set
\* of a produced row is the set of the declared columns.
C10_KeysAreDeclaredColumns ==
    Produced => DOMAIN row.row = DOMAIN Child.columns

\* C10 restricted to FK constraints whose mapping names no foreign column
\* twice: there the key set is the set of the declared columns.
C10_KeysAreDeclaredColumnsInjective ==
    (Produced /\ \A i \in DOMAIN Child.fk_constraints : injective(Child.fk_constraints[i]))
        => DOMAIN row.row = DOMAIN Child.columns

\* a row built through mappings whose local and foreign names differ, one
\* constraint being skipped for a null local column
C10_Witness ==
    /\ Produced
    /\ Child.fk_constraints = <<FkSwap, FkBC>>
    /\ row.nulls = {"c"}
    /\ row.row["a"] # row.row["b"]
    /\ DOMAIN row.row = ChildCols

\* the values of the row on the columns of the unique constraint are all
\* non-null
all_non_null(uc, r) == \A k \in DOMAIN uc : r[uc[k]] # Null

same_key(uc, r1, r2) == \A k \in DOMAIN uc : r1[uc[k]] = r2[uc[k]]

\* C2: in the list of accepted rows, after every step of list_strategy, no two
\* rows have equal, all-non-null values on the columns of a unique constraint.
C2_UniqueRows ==
    pc \in {"list", "list_done"} =>
        \A k \in DOMAIN table_info.unique_constraints :
            \A i, j \in DOMAIN items :
                (i < j /\ all_non_null(table_info.unique_constraints[k], items[i])) =>
                    ~same_key(table_info.unique_constraints[k], items[i], items[j])

\* two rows were accepted under two unique constraints: they agree on a, where
\* one of them is null, and differ on b
C2_Witness ==
    /\ pc = "list_done"
    /\ table_info.unique_constraints = <<<<"a">>, <<"b">>>>
    /\ Len(items) = 2
    /\ items[1]["a"] = Null
    /\ items[2]["a"] = Null
    /\ items[1]["b"] # items[2]["b"]
    /\ iters > Len(items)

\* C4: if the FK graph has a cycle, get_db ends with the cycle-detected error
\* before get_table is invoked: no table strategy is built, no row list is
\* started and no store entry is written.
C4_CycleStopsBeforeGeneration ==
    cyclic(schema) =>
        /\ pc \in {"get_db", "start", "topo", "ValueError"}
        /\ strats = {}
        /\ written = <<>>
        /\ items = <<>>
        /\ data = EmptyStore

\* the error was raised for a cycle standing beside tables the sort had emitted
C4_Witness ==
    /\ pc = "ValueError"
    /\ cyclic(schema)
    /\ sorted_tables # <<>>

\* C6: get_table(...).gen(), and so get_db, never ends with
\* UnSatisfiableFkConstraintError.
C6_FkErrorStaysInTableEngine ==
    pc # "UnSatisfiableFkConstraintError"

\* the table owns an FK constraint whose local columns are NOT NULL and whose
\* foreign table holds no referencable row
fk_not_null_unsatisfiable(info, store) ==
    \E k \in DOMAIN info.fk_constraints :
        /\ \A c \in local_cols(info.fk_constraints[k]) : ~info.columns[c].nullable
        /\ referencable_rows(info.fk_constraints[k], store) = <<>>

\* C7: a table owning an FK constraint with NOT NULL local columns into a table
\* without referencable row gets the empty row list as its store entry, and
\* get_db goes on with the remaining tables and returns normally.
C7_EmptyTableAndRunCompletes ==
    \A k \in DOMAIN written :
        fk_not_null_unsatisfiable(schema_(schema, written[k]), data) =>
            /\ written[k] \in DOMAIN data
            /\ data[written[k]] = <<>>
            /\ pc # "UnSatisfiableFkConstraintError"

\* the part of C7 about the table itself: its entry is the empty list
C7_EmptyTable ==
    \A k \in DOMAIN written :
        fk_not_null_unsatisfiable(schema_(schema, written[k]), data) =>
            /\ written[k] \in DOMAIN data
            /\ data[written[k]] = <<>>

\* the call of list_strategy that get_table makes for a row count and no unique
\* constraint: min_length = max_length, no uniqueness key
exact_count_call ==
    /\ pc = "list_done"
    /\ table_info.unique_constraints = <<>>
    /\ min_length = max_length

\* C11 as stated: with a row count n and no unique constraint the row list has
\* exactly n rows, for every n >= 0.
C11_ExactRowCount ==
    exact_count_call => Len(items) = min_length

\* C11: with a row count n and no unique constraint the row list has exactly
\* min(n, max_iter) rows, every iteration of the loop adding one row; get_table
\* passes the row count as both bounds, and 10 and 1000 when there is none.
C11_RowCountUpToMaxIter ==
    /\ exact_count_call => Len(items) = Min(min_length, max_iter)
    /\ pc = "list_done" => length \in min_length..max_length
    /\ \A n \in 0..MaxRowCount :
           table_min_length(n) = n /\ table_max_length(n) = n
    /\ table_min_length(None) = 10
    /\ table_max_length(None) = 1000

\* a row count of two or more was asked for and delivered within max_iter
C11_Witness ==
    /\ exact_count_call
    /\ min_length >= 2
    /\ max_iter >= min_length
    /\ Len(items) = min_length

\* the overrides the caller gave for the columns of the child table
ChildOverrides == overrides_of(tbl_override_strategies, Child.table)

\* C12: in every row get_row produces, a NOT NULL column without caller
\* override is present and not null, whether its value is drawn from the
\* type-mapped strategy or taken from an FK candidate.
C12_NotNullNeverNull ==
    Produced =>
        \A c \in DOMAIN Child.columns :
            (~Child.columns[c].nullable /\ c \notin DOMAIN ChildOverrides) =>
                (c \in DOMAIN row.row /\ row.row[c] # Null)

\* a and b are NOT NULL and come from a parent1 candidate although parent1 also
\* holds a row with a null; the constraint on (b, c) is skipped, c being null
C12_Witness ==
    /\ Produced
    /\ Child.fk_constraints = <<FkAB, FkBC>>
    /\ ~Child.columns["a"].nullable
    /\ ~Child.columns["b"].nullable
    /\ Child.columns["c"].nullable
    /\ ChildOverrides = NoOverride
    /\ row.nulls = {"c"}
    /\ \E i \in DOMAIN store_get(data, "parent1") :
           data["parent1"][i]["a"] = Null \/ data["parent1"][i]["b"] = Null
    /\ row.row["a"] # Null
    /\ row.row["b"] # Null

\* some table of the schema has a column whose type has no mapping and which
\* carries no enum labels
has_unsupported_column(sch) ==
    \E i \in DOMAIN sch : \E c \in DOMAIN sch[i].columns :
        unsupported_pgtype(sch[i].columns[c])

\* C13: if a table has a column of an unsupported type, get_db never returns a
\* store, whatever the FK constraints of that table.
C13_UnsupportedTypeAborts ==
    has_unsupported_column(schema) => pc # "done"

\* the part of C13 that holds: a table with such a column never gets rows
C13_NoRowsForUnsupported ==
    \A t \in DOMAIN data :
        (\E c \in DOMAIN schema_(schema, t).columns :
             unsupported_pgtype(schema_(schema, t).columns[c])) => data[t] = <<>>

\* C14: get_db accepts the argument col_name_strategy_mappings: a call that
\* passes it does not fail on the argument.
C14_AcceptsColNameMappings ==
    "col_name_strategy_mappings" \in kwargs => pc # "TypeError"

\* C15: a column outside every FK constraint that has a caller override holds,
\* in every produced row, a value of the override strategy.
C15_OverrideUsed ==
    Produced =>
        \A c \in DOMAIN ChildOverrides :
            c \notin all_local_cols(Child.fk_constraints) =>
                (c \in DOMAIN row.row /\ row.row[c] \in ChildOverrides[c])

\* b is outside the FK constraints and overridden by the fixed value 1, while
\* the constrained column c holds a value the override does not yield
C15_Witness ==
    /\ Produced
    /\ Child.fk_constraints = <<FkA, FkCtoB>>
    /\ ChildOverrides = "b" :> fixed_strategy(1)
    /\ row.row["b"] = 1
    /\ row.row["c"] = 2

\* C16: where a caller override targets a column of an FK constraint that is
\* enforced for the row, the row matches a foreign row on that constraint: the
\* column holds the value of the FK candidate, whatever the override yields.
C16_FkWinsOverOverride ==
    Produced =>
        \A c \in DOMAIN ChildOverrides :
            \A fk \in not_skipped(Child.fk_constraints, row.nulls) :
                c \in local_cols(fk) => fk_matched(fk, row.row, data)

\* b is overridden by the fixed value 1 and constrained by (a, b) -> parent1;
\* the row holds the b of a parent1 row, which the override does not yield
C16_Witness ==
    /\ Produced
    /\ Child.fk_constraints = <<FkAB>>
    /\ ChildOverrides = "b" :> fixed_strategy(1)
    /\ row.nulls = {}
    /\ row.row["b"] \notin ChildOverrides["b"]
    /\ fk_matched(FkAB, row.row, data)

\* C17: the store get_db returns enumerates every table after all tables its FK
\* constraints reference, for every store passed to get_db.
C17_StoreInDependencyOrder ==
    pc = "done" =>
        \A t \in Range(all_tables(schema)) :
            \A f \in references(schema, t) :
                \E pf \in place(data_keys, f) :
                    \A pt \in place(data_keys, t) : pf < pt

\* a step of get_db keeps every entry the store holds
store_kept == \A t \in DOMAIN data : t \in DOMAIN data' /\ data'[t] = data[t]

\* a step that writes an entry writes the entry of a table not written before,
\* after the entries of all tables it references
written_once ==
    written' # written =>
        /\ Len(written') = Len(written) + 1
        /\ SubSeq(written', 1, Len(written)) = written
        /\ written'[Len(written')] \notin Range(written)
        /\ references(schema, written'[Len(written')]) \subseteq Range(written)
        /\ DOMAIN data' = DOMAIN data \cup {written'[Len(written')]}

\* C18: during get_db no step changes or removes an entry the store holds, be it
\* generated earlier or supplied by the caller; each table's entry is written
\* once, by its own generation step, after the entries of the tables it references.
C18_StoreOnlyGrows == [][store_kept /\ written_once]_vars

\* the part of C18 about the writing steps alone
C18_WrittenOnce == [][written_once]_vars

\* the constraints and the outcome of the call of get_fk_constrained_options
OptionFks == schema[1].fk_constraints

Returned == pc = "returned"

\* a foreign row is referencable through fk: its referenced columns are non-null
is_referencable(fk, foreign_row) ==
    \A f \in foreign_cols(fk) : f \in DOMAIN foreign_row /\ foreign_row[f] # Null

\* the value the foreign row gives to the local column c of fk
local_value(fk, foreign_row, c) ==
    LET k == CHOOSE j \in DOMAIN fk.local_foreign_mapping : fk.local_foreign_mapping[j][1] = c
    IN  foreign_row[fk.local_foreign_mapping[k][2]]

\* the row of its foreign table that a choice picks for constraint k
picked(fks, store, ch, k) == store_get(store, fks[k].foreign_table)[ch[k]]

\* the choices of the reference join: for each constraint the place of one
\* referencable row of its foreign table, the picked rows agreeing on every
\* local column two constraints share
fk_choices(fks, store) ==
    {ch \in [DOMAIN fks -> UNION {DOMAIN store[t] : t \in DOMAIN store}] :
        /\ \A k \in DOMAIN fks :
               /\ ch[k] \in DOMAIN store_get(store, fks[k].foreign_table)
               /\ is_referencable(fks[k], picked(fks, store, ch, k))
        /\ \A k1, k2 \in DOMAIN fks :
               \A c \in local_cols(fks[k1]) \cap local_cols(fks[k2]) :
                   local_value(fks[k1], picked(fks, store, ch, k1), c)
                       = local_value(fks[k2], picked(fks, store, ch, k2), c)}

\* the assignment to the local columns that a choice stands for
candidate(fks, store, ch) ==
    [c \in all_local_cols(fks) |->
        LET k == CHOOSE j \in DOMAIN fks : c \in local_cols(fks[j])
        IN  local_value(fks[k], picked(fks, store, ch, k), c)]

\* iteration order of the nested loops: the first constraint varies slowest
lex_before(ch1, ch2) ==
    \E k \in DOMAIN ch1 : ch1[k] < ch2[k] /\ \A j \in DOMAIN ch1 : j < k => ch1[j] = ch2[j]

nth_choice(choices, n) ==
    CHOOSE ch \in choices : Cardinality({o \in choices : lex_before(o, ch)}) = n - 1

\* C19: when the join does not exceed the cap, the candidates returned by
\* get_fk_constrained_options are exactly the assignments of the reference join,
\* one per choice of agreeing referencable foreign rows, and the column set
\* returned is the union of the local columns; on the fixture of test_generate.py
\* the columns are {a, b, c} and there are 5 candidates.
C19_CandidatesAreReferenceJoin ==
    (Returned /\ OptionFks # <<>>) =>
        LET choices == fk_choices(OptionFks, data)
        IN  /\ fk_constrained_cols = all_local_cols(OptionFks)
            /\ Cardinality(choices) <= max_rows =>
                   /\ Len(fk_strat) = Cardinality(choices)
                   /\ Range(fk_strat) = {candidate(OptionFks, data, ch) : ch \in choices}
            /\ data = parent_data =>
                   fk_constrained_cols = {"a", "b", "c"} /\ Len(fk_strat) = 5

\* the call of the test has returned its 5 candidates
C19_Witness ==
    /\ Returned
    /\ data = parent_data
    /\ OptionFks = <<FkAB, FkBC>>
    /\ Len(fk_strat) = 5
    /\ Cardinality(fk_choices(OptionFks, data)) = 5

\* C20: the candidate list returned by get_fk_constrained_options is the prefix,
\* in iteration order, of the join result, of length min(join size, cap); when
\* the join is not empty a strategy is returned, also when the cap is reached.
C20_CandidatesCapped ==
    (Returned /\ OptionFks # <<>>) =>
        LET choices == fk_choices(OptionFks, data)
        IN  /\ Len(fk_strat) <= max_rows
            /\ Len(fk_strat) = Min(Cardinality(choices), max_rows)
            /\ \A n \in DOMAIN fk_strat :
                   fk_strat[n] = candidate(OptionFks, data, nth_choice(choices, n))
            /\ choices # {} => fk_strat # <<>>

\* a join over two constraints of more rows than the cap was cut: a candidate of
\* the join differs from the ones kept
C20_Witness ==
    /\ Returned
    /\ max_rows < MAX_ROWS
    /\ Len(OptionFks) = 2
    /\ Len(fk_strat) = max_rows
    /\ Cardinality(fk_choices(OptionFks, data)) > max_rows
    /\ \E ch \in fk_choices(OptionFks, data) :
           candidate(OptionFks, data, ch) \notin Range(fk_strat)

\* a step of list_strategy that drew an item: one more iteration of the loop
ListDrew == pc = "list" /\ iters' = iters + 1

\* the item drawn in the step was appended to the accepted items
ListAccepted == items' = Append(items, row'.row)

\* the key of the unique constraint uc of row r, where r has no null on uc
key_of(uc, r) == [k \in DOMAIN uc |-> r[uc[k]]]

\* an earlier accepted row has the key of r under the unique constraint uc
key_taken(uc, r) ==
    \E i \in DOMAIN items : all_non_null(uc, items[i]) /\ same_key(uc, items[i], r)

\* C21: list_strategy accepts a candidate row iff, for every unique constraint on
\* whose columns the row has no null, no earlier accepted row recorded the row's
\* key under that constraint; a constraint on which the row has a null neither
\* rejects the row nor records it, and the keys recorded under one constraint do
\* not count under another.
C21_AcceptedIffKeysNew ==
    [][ListDrew =>
          LET ucs == table_info.unique_constraints
              cand == row'.row
          IN  /\ ListAccepted <=>
                     \A k \in DOMAIN ucs :
                         all_non_null(ucs[k], cand) => ~key_taken(ucs[k], cand)
              /\ ListAccepted \/ items' = items
              /\ \A k \in DOMAIN ucs :
                     /\ ~all_non_null(ucs[k], cand) => seen'[k] = seen[k]
                     /\ (ListAccepted /\ all_non_null(ucs[k], cand)) =>
                            seen'[k] = seen[k] \cup {key_of(ucs[k], cand)}
                     /\ seen[k] = {key_of(ucs[k], items[i]) :
                                       i \in {j \in DOMAIN items :
                                                  all_non_null(ucs[k], items[j])}}]_vars

\* under the constraints (a) and (b) a second row was accepted whose a is the b of
\* the first row, and a drawn row was rejected
C21_Witness ==
    /\ pc = "list_done"
    /\ table_info.unique_constraints = <<<<"a">>, <<"b">>>>
    /\ Len(items) = 2
    /\ items[2]["a"] = items[1]["b"]
    /\ items[1]["a"] # Null
    /\ items[1]["b"] # Null
    /\ iters > Len(items)

\* C22: list_strategy terminates; it invokes the row strategy at most max_iter
\* times, draws no row once the accepted count has reached the target length,
\* never holds more rows than the target length, and returns the accepted rows
\* when the iterations run out, also when they are fewer than min_length.
C22_ListTerminates ==
    /\ [](pc \in {"list", "list_done"} =>
             /\ iters <= max_iter
             /\ Len(items) <= iters
             /\ Len(items) <= length
             /\ length <= max_length)
    /\ [][(pc = "list" /\ Len(items) >= length) => iters' = iters /\ pc' = "list_done"]_vars
    /\ [][(pc = "list" /\ iters >= max_iter) => items' = items /\ pc' = "list_done"]_vars
    /\ [](pc = "list_done" => (Len(items) = length \/ iters = max_iter))
    /\ <>(pc = "list_done")

\* the iterations ran out on rejected rows: the list returned is shorter than
\* min_length
C22_Witness ==
    /\ pc = "list_done"
    /\ iters = max_iter
    /\ Len(items) < min_length
    /\ Len(items) > 0
    /\ iters > Len(items)

\* the row drawn in the step has, under some unique constraint on which it has
\* no null, the key of an earlier accepted row
ListCollided ==
    \E k \in DOMAIN table_info.unique_constraints :
        /\ all_non_null(table_info.unique_constraints[k], row'.row)
        /\ key_taken(table_info.unique_constraints[k], row'.row)

\* C23: a step of list_strategy that rejects a row for a key collision changes
\* the iteration count only: the accepted rows and the recorded keys of every
\* constraint, also of those under which the row's key was new, stay as they were.
C23_RejectChangesNothing ==
    [][(ListDrew /\ ListCollided) =>
          /\ items' = items
          /\ seen' = seen
          /\ iters' = iters + 1
          /\ pc' = pc
          /\ <<min_length, max_length, max_iter, length>>' =
                 <<min_length, max_length, max_iter, length>>
          /\ <<schema, data, data_keys, strats, written, idx>>' =
                 <<schema, data, data_keys, strats, written, idx>>]_vars

\* a row was rejected for its key under one unique constraint while its key
\* under the other constraint was new, and that key is not recorded
C23_Witness ==
    /\ pc = "list"
    /\ row.kind = "row"
    /\ Len(table_info.unique_constraints) = 2
    /\ \E k1, k2 \in DOMAIN table_info.unique_constraints :
           /\ all_non_null(table_info.unique_constraints[k1], row.row)
           /\ key_taken(table_info.unique_constraints[k1], row.row)
           /\ all_non_null(table_info.unique_constraints[k2], row.row)
           /\ ~key_taken(table_info.unique_constraints[k2], row.row)
           /\ key_of(table_info.unique_constraints[k2], row.row) \notin seen[k2]

\* the outcome of the call of col_info_to_strategy
Mapped == pc \in {"returned", UnsupportedPgtype}

\* the strategy inside nullable(...), or the strategy itself
inner(strategy) == IF strategy.func = "nullable" THEN strategy.args[1] ELSE strategy

\* the two descriptions of the Type Mapper agree on the rule that applies
MapperRulesAgree ==
    Mapped =>
        /\ enum_branch(arg_col_info) <=> inner(ret_strat).func = "one_of"
        /\ unsupported_pgtype(arg_col_info) <=> ret_strat.func = UnsupportedPgtype
        /\ ret_strat.func = "nullable" <=>
               (arg_col_info.nullable /\ ~unsupported_pgtype(arg_col_info))

\* C24: for every column that carries enum labels, whatever its type tag, the
\* Type Mapper returns the choice among the declared labels, wrapped in nullable
\* exactly when the column is nullable.
C24_EnumLabelsOnly ==
    (Mapped /\ arg_col_info.enum_values # <<>>) =>
        /\ pc = "returned"
        /\ inner(ret_strat).func = "one_of"
        /\ inner(ret_strat).args = arg_col_info.enum_values
        /\ ret_strat.func = "nullable" <=> arg_col_info.nullable

\* the part of C24 that holds: the enum rule applies to the columns with labels
\* whose type tag has no rule of its own before it
C24_EnumLabelsForOtherTypes ==
    (Mapped /\ arg_col_info.enum_values # <<>>
            /\ arg_col_info.pgtype \in {"mood", "point", "bit", "varbit", "xml"}) =>
        /\ pc = "returned"
        /\ inner(ret_strat).func = "one_of"
        /\ inner(ret_strat).args = arg_col_info.enum_values

\* the rules of the default dictionary that match the name and whose word set is
\* not a proper part of the word set of another matching rule
most_specific_rules(name) ==
    {k \in DOMAIN COL_NAME_STRATEGY_MAPPINGS :
        /\ rule_matches(COL_NAME_STRATEGY_MAPPINGS[k], name)
        /\ \A j \in DOMAIN COL_NAME_STRATEGY_MAPPINGS :
               rule_matches(COL_NAME_STRATEGY_MAPPINGS[j], name) =>
                   ~(/\ Range(COL_NAME_STRATEGY_MAPPINGS[k].words)
                            \subseteq Range(COL_NAME_STRATEGY_MAPPINGS[j].words)
                     /\ Range(COL_NAME_STRATEGY_MAPPINGS[k].words)
                            # Range(COL_NAME_STRATEGY_MAPPINGS[j].words))}

\* an unbounded text column
unbounded_text(ci) ==
    /\ ci.pgtype \in {"varchar", "text", "bpchar"}
    /\ ci.character_maximum_length = None

\* C25: with the default dictionary an unbounded text column named company_name
\* is mapped to the company-name generator, and a column matching a more
\* specific and a more general word set is mapped by a most specific rule.
C25_SpecificRuleWins ==
    (Mapped /\ unbounded_text(arg_col_info)) =>
        /\ arg_col_info.col_name = <<"c", "o", "m", "p", "a", "n", "y", "_", "n", "a", "m", "e">>
               => inner(ret_strat).func = "company"
        /\ most_specific_rules(arg_col_info.col_name) # {} =>
               \E k \in most_specific_rules(arg_col_info.col_name) :
                   inner(ret_strat) = COL_NAME_STRATEGY_MAPPINGS[k].strat

\* the part of C25 that holds: the first rule of the dictionary whose words all
\* occur in the name is the one applied
C25_FirstRuleWins ==
    (Mapped /\ unbounded_text(arg_col_info)) =>
        \/ /\ \A k \in DOMAIN COL_NAME_STRATEGY_MAPPINGS :
                  ~rule_matches(COL_NAME_STRATEGY_MAPPINGS[k], arg_col_info.col_name)
           /\ inner(ret_strat).func = "pystr"
        \/ \E k \in DOMAIN COL_NAME_STRATEGY_MAPPINGS :
               /\ rule_matches(COL_NAME_STRATEGY_MAPPINGS[k], arg_col_info.col_name)
               /\ \A j \in 1..(k - 1) :
                      ~rule_matches(COL_NAME_STRATEGY_MAPPINGS[j], arg_col_info.col_name)
               /\ inner(ret_strat) = COL_NAME_STRATEGY_MAPPINGS[k].strat

\* the bits of the integer types
type_bits(pgtype) == IF pgtype = "int2" THEN 16 ELSE IF pgtype = "int4" THEN 32 ELSE 64

\* C28: for an integer column the bounds of the strategy are -2^(p-1) and
\* 2^(p-1)-1 for a given precision p, and lie within the signed range of the
\* column's type when no precision is given.
C28_IntBoundsInRange ==
    (Mapped /\ arg_col_info.pgtype \in {"int2", "int4", "int8"}) =>
        LET p == arg_col_info.numeric_precision
            bounds == inner(ret_strat).args
        IN  /\ inner(ret_strat).func = "pyint"
            /\ p # None =>
                   /\ bounds.min_value = [minus_two_to |-> p - 1]
                   /\ bounds.max_value = [two_to |-> p - 1, minus |-> 1]
            /\ p = None =>
                   /\ bounds.min_value.minus_two_to <= type_bits(arg_col_info.pgtype) - 1
                   /\ bounds.max_value.two_to <= type_bits(arg_col_info.pgtype) - 1

\* the part of C28 that holds: the bounds are those of the given precision, and
\* those of 32 bits when none is given
C28_IntBoundsOfPrecision ==
    (Mapped /\ arg_col_info.pgtype \in {"int2", "int4", "int8"}) =>
        LET p == IF arg_col_info.numeric_precision = None THEN 32
                 ELSE arg_col_info.numeric_precision
        IN  /\ inner(ret_strat).func = "pyint"
            /\ inner(ret_strat).args.min_value = [minus_two_to |-> p - 1]
            /\ inner(ret_strat).args.max_value = [two_to |-> p - 1, minus |-> 1]

(***************************************************************************)
(* C26: the order returned by topo_sort_tables against all_tables.         *)
(***************************************************************************)
\* the tables that own no constraint and are referenced by none
no_fk_edge(sch) ==
    {sch[i].table : i \in {j \in DOMAIN sch : sch[j].fk_constraints = <<>>}}
        \ {edges(sch)[k][2] : k \in DOMAIN edges(sch)}

\* C26: the list topo_sort_tables returns is a permutation of all_tables (every
\* table of all_tables once, no other table), and the tables without an FK edge
\* in either direction come after the tables the sort emitted.
C26_PermutationOfAllTables ==
    pc = "loop" =>
        /\ \A t \in Range(all_tables(schema)) : Cardinality(place(sorted_tbls, t)) = 1
        /\ Range(sorted_tbls) \subseteq Range(all_tables(schema))
        /\ \A t \in no_fk_edge(schema) :
               \A p \in place(sorted_tbls, t) : p > Len(sorted_tables)

\* the part of C26 that holds: every table of all_tables appears once, the
\* tables without an FK edge after the sorted set, and any other table of the
\* list is a foreign table of some constraint
C26_EveryTableOnce ==
    pc = "loop" =>
        /\ \A t \in Range(all_tables(schema)) : Cardinality(place(sorted_tbls, t)) = 1
        /\ \A i \in DOMAIN sorted_tbls : Cardinality(place(sorted_tbls, sorted_tbls[i])) = 1
        /\ \A t \in no_fk_edge(schema) :
               \A p \in place(sorted_tbls, t) : p > Len(sorted_tables)
        /\ Range(sorted_tbls) \ Range(all_tables(schema))
               \subseteq {edges(schema)[k][2] : k \in DOMAIN edges(schema)}

(***************************************************************************)
(* C27: the field groups get_row merges, and the merge on groups that      *)
(* share a key.                                                            *)
(***************************************************************************)
Merged == pc = "dict_strategy" /\ row.kind = "row"

pairwise_disjoint(groups) ==
    /\ DOMAIN groups.null_fixed \cap DOMAIN groups.fk_resolved = {}
    /\ DOMAIN groups.null_fixed \cap DOMAIN groups.regular = {}
    /\ DOMAIN groups.fk_resolved \cap DOMAIN groups.regular = {}

all_keys(groups) ==
    DOMAIN groups.null_fixed \cup DOMAIN groups.fk_resolved \cup DOMAIN groups.regular

\* the row whose keys are those of the three groups, the value of a key being
\* that of the first group of the list holding it
by_precedence(first, second, third) ==
    [c \in DOMAIN first \cup DOMAIN second \cup DOMAIN third |->
        IF c \in DOMAIN first THEN first[c]
        ELSE IF c \in DOMAIN second THEN second[c]
        ELSE third[c]]

\* C27 as stated: the groups get_row merges have pairwise disjoint key sets for
\* every row and every outcome of the null draws; on groups sharing a key the
\* merge returns a row, with the precedence null-fixed > FK-resolved > regular.
C27_DisjointAndNullFixedFirst ==
    /\ (pc = "get_row" /\ Produced) =>
           /\ pairwise_disjoint(row.groups)
           /\ DOMAIN row.groups.null_fixed = row.nulls
           /\ row.row = by_precedence(row.groups.null_fixed, row.groups.fk_resolved,
                                      row.groups.regular)
    /\ Merged =>
           row.row = by_precedence(row.groups.null_fixed, row.groups.fk_resolved,
                                   row.groups.regular)

\* C27 amended: the groups get_row merges have pairwise disjoint key sets for
\* every row and every outcome of the null draws; on groups sharing a key the
\* merge returns a row, with the precedence FK-resolved > null-fixed > regular.
C27_DisjointAndFkResolvedFirst ==
    /\ (pc = "get_row" /\ Produced) =>
           /\ pairwise_disjoint(row.groups)
           /\ DOMAIN row.groups.null_fixed = row.nulls
           /\ row.row = by_precedence(row.groups.fk_resolved, row.groups.null_fixed,
                                      row.groups.regular)
    /\ Merged =>
           row.row = by_precedence(row.groups.fk_resolved, row.groups.null_fixed,
                                   row.groups.regular)

\* a merge of groups in which a has a value in all three, different in the
\* regular and the FK-resolved group
C27_Witness ==
    /\ Merged
    /\ "a" \in DOMAIN row.groups.null_fixed \cap DOMAIN row.groups.fk_resolved
                  \cap DOMAIN row.groups.regular
    /\ row.groups.regular["a"] \notin {Null, row.groups.fk_resolved["a"]}
    /\ row.row["a"] = row.groups.fk_resolved["a"]

====
